---- MODULE Spec2Model ----
(***************************************************************************)
(* Snapshot engine of packages/opencode/src/snapshot/index.ts:             *)
(*   - withLock: the per-shadow-repository promise chain (ProcessLock)     *)
(*   - track / patch / diff / restore / revert over a worktree, the shadow *)
(*     repository's index and its tree objects.                            *)
(* LockSpec drives withLock with opaque bodies on two keys; SnapSpec runs   *)
(* the snapshot operations through the same withLock on one key.           *)
(***************************************************************************)
EXTENDS Integers, Sequences, FiniteSets, TLC

\* ---------------------------------------------------------------- bounds
MaxCalls == 3          \* withLock invocations explored by LockSpec
BodySteps == 1         \* awaited git steps of an opaque body in LockSpec
MaxOps == 3            \* snapshot operations explored by SnapSpec
MaxPatches == 2        \* length of the patch list handed to revert
MaxPending == 1        \* snapshot operations in flight at once in SnapSpec
MaxLimit == 3          \* largest page size asked of listSessionIndex in PageSpec
MaxMerges == 2         \* merges applied in a row in MergeSpec
MaxRequests == 3       \* requests sent in SyncSpec
MaxLocal == 2          \* longest local sequence addOptimisticMessage adds to in SyncSpec
chunk == 2             \* sync.tsx chunk (200), scaled
MaxTicks == 4          \* half intervals Date.now() moves on in GcSpec
MaxSegments == 4       \* segments of the path handed to Worktree.remove in WorktreeSpec
MaxEvents == 3         \* file events delivered in StatusSpec
MaxStatusTicks == 3    \* steps Date.now() moves on in StatusSpec
MaxCommands == 6       \* undo and redo commands run in UndoSpec
MaxPages == 3          \* largest windowPages reached in PaneSpec
MaxPaneTicks == 3      \* steps the clock moves on in PaneSpec

\* ------------------------------------------------------------- constants
Keys == {"gitA", "gitB"}        \* shadow repository paths (values of gitdir())
Gitdir == "gitA"                \* gitdir() of the project SnapSpec works on
Resolved == 0                   \* Promise.resolve(); also "no Map entry"

GC_INTERVAL_MS == 24 * 60 * 60 * 1000
maxAttempts == 5                \* worktree/index.ts remove()
STATUS_TTL == 2000              \* file/index.ts
MESSAGE_WINDOW_RESET_MS == 120000
MESSAGE_WINDOW_TOP_THRESHOLD == 120
MESSAGE_WINDOW_BOTTOM_THRESHOLD == 50
MESSAGE_HISTORY_LOAD_DEBOUNCE_MS == 400
\* Date.now() at the first call: any time later than GC_INTERVAL_MS after the epoch
StartTime == 20 * GC_INTERVAL_MS

Files == {"a.txt", "b.txt"}     \* paths relative to Instance.worktree
FileOrder == <<"a.txt", "b.txt">>   \* git lists paths in sorted order
Contents == {"old", "new"}
Spaced == {"old "}              \* "old" with a blank added: differs in whitespace only
Absent == "absent"              \* the path does not exist
WorktreeRoot == "/wt"           \* Instance.worktree
Trees == [Files -> Contents \cup {Absent}]
EmptyTree == [f \in Files |-> Absent]
InitialTree == [f \in Files |-> IF f = "a.txt" THEN "old" ELSE Absent]

ProjectGitDir == "/wt/.git"     \* the project's own repository

\* git subprocesses each operation body runs (those whose failure it can meet)
TrackCmds == {"init", "lsfiles", "add", "writetree"}
DiffCmds == {"lsfiles", "add", "diff"}
DiffFullCmds == {"lsfiles", "add", "numstat", "show"}
RestoreCmds == {"readtree", "checkoutindex"}
RevertCmds == {"checkout", "lstree"}
\* git commands that write into the repository they address
Writers == {"init", "config", "add", "writetree", "gc", "readtree", "checkout"}
\* what the environment can make fail while one body runs: nothing, one
\* command, or every command (shadow repository unusable)
FaultModes(cmds) == {{}} \cup {{c} : c \in cmds} \cup {cmds}

VARIABLES
  locks,      \* Map<string, Promise<void>>: key -> id of the call whose `chained` is stored, 0 = absent
  ncalls,     \* number of withLock invocations so far; call ids are 1..ncalls in submission order
  key,        \* call id -> the `git` argument
  cur,        \* call id -> `current`: 0 = Promise.resolve(), j = `chained` of call j
  released,   \* call id -> `next` has been resolved (release() was called)
  pc,         \* call id -> "none" | "waiting" | "running" | "returned" | "threw"
  step,       \* call id -> git steps the body has completed
  fnres,      \* call id -> how fn() settled: "none" | "ok" | "err"
  started,    \* history: call ids in the order their body started
  op,         \* call id -> operation whose body was passed to withLock ("done" once settled)
  known,      \* call id -> hashes the caller can pass: those track() had returned at the call
  worktree,   \* Instance.worktree: file name -> content
  index,      \* the shadow repository's index: file name -> staged content
  objects,    \* tree objects present in the shadow repository
  dirExists,  \* the directory gitdir() exists
  repoInit,   \* `git init` has succeeded in it
  emptyRet,   \* some track() has returned the empty string
  last,       \* the last completed operation body or worktree edit
  vcs,        \* Instance.project.vcs: "git" or "undefined"
  snapshot,   \* cfg.snapshot: "true", "false" or "undefined" (not configured)
  gc,         \* Map<string, number>: time of the last pass on gitdir(), 0 = absent
  now,        \* Date.now()
  projectGit, \* the project's own .git: the writing git commands that addressed it
  sessions,   \* table sessions: id -> row, as committed (what any connection reads)
  sessionIndex, \* table session_index: id -> row, as committed
  messages,   \* table messages: id -> row
  parts,      \* table message_parts: <<sessionID, messageID, id>> -> row
  typesSeeded, \* meta row "message-part-types-seeded" exists
  seeded,     \* meta row "session-index-seeded" exists
  tx,         \* the open transaction of writeSession: <<>> or <<its tables so far>>
  lastStore,  \* the last store call that returned or threw
  pager,      \* a client paging through listSessionIndex
  message,    \* store.message[sessionID]: <<>> = undefined, <<seq>> = the local sequence
  localPart,  \* store.part: message id -> its parts, ids outside the DOMAIN are undefined
  session,    \* the session is in store.session
  meta,       \* meta.limit, meta.complete, meta.loading of the session
  inflight,   \* inflight.get(sessionID): <<>> or <<the requests its promise awaits>>
  requests,   \* requests sent and not yet answered, by request id
  nreq,       \* requests sent so far
  server,     \* message ids the server holds for the session
  calls,      \* the promise the last sync() returned: {} before any call
  merged,     \* the last merge or response applied: its arguments and the sequence before it
  removal,    \* the last Worktree.remove() call: its argument, position, steps and outcome
  pane,       \* the session pane's store, its timers and the calls it made
  fileStatus, \* File.status(): its cache, the computation in flight and the calls answered
  undo        \* the session the undo and redo commands work on: its revert marker

lockVars == <<locks, ncalls, key, cur, released, pc, step, fnres, started>>
projVars == <<vcs, snapshot, now>>
snapVars == <<op, known, worktree, index, objects, dirExists, repoInit, emptyRet, last,
              vcs, snapshot, gc, now, projectGit>>
storeVars == <<sessions, sessionIndex, messages, parts, typesSeeded, seeded, tx, lastStore,
               pager>>
partVars == <<parts, typesSeeded>>
clientVars == <<message, localPart, session, meta, inflight, requests, nreq, server, calls,
                merged>>
appVars == <<removal, pane, fileStatus, undo>>
coreVars == <<lockVars, snapVars, storeVars, clientVars>>
vars == <<locks, ncalls, key, cur, released, pc, step, fnres, started,
          op, known, worktree, index, objects, dirExists, repoInit, emptyRet, last,
          vcs, snapshot, gc, now, projectGit,
          sessions, sessionIndex, messages, parts, typesSeeded, seeded, tx, lastStore,
          pager,
          message, localPart, session, meta, inflight, requests, nreq, server, calls,
          merged, removal, pane, fileStatus, undo>>

Calls == 1..(IF MaxCalls > MaxOps THEN MaxCalls ELSE MaxOps)

\* `chained = current.then(() => next)`: fulfilled once `current` is fulfilled
\* and `next` has been resolved by release().
RECURSIVE Fulfilled(_)
Fulfilled(p) ==
  IF p = Resolved THEN TRUE
  ELSE released[p] /\ Fulfilled(cur[p])

\* the Map slot a key uses
SlotShared(k) == "gitA"
Slot(k) == k

\* `locks.get(git) ?? Promise.resolve()`
CurrentNoChain(k) == Resolved
Current(k) == IF locks[Slot(k)] = 0 THEN Resolved ELSE locks[Slot(k)]

\* finally: `if (locks.get(git) === chained) locks.delete(git)`
LocksAfterDeleteAlways(i) == [locks EXCEPT ![Slot(key[i])] = 0]
LocksAfterFinally(i) ==
  IF locks[Slot(key[i])] = i THEN [locks EXCEPT ![Slot(key[i])] = 0] ELSE locks

\* try { return await fn() } finally { release() ... }: release on every exit
ReleasedOnlyOnSuccess(threw) == ~threw
ReleasedAtExit(threw) == TRUE

\* no catch: a rejection of fn() rejects withLock's promise
SettleSwallow(threw) == "returned"
Settle(threw) == IF threw THEN "threw" ELSE "returned"


\* ------------------------------------------------------ snapshot engine
\* path.join(Instance.worktree, x) and path.relative(Instance.worktree, file)
JoinDirectory(x) == <<"/wt/packages", x>>
Join(x) == <<WorktreeRoot, x>>
Relative(file) == file[2]

\* a git command exits 0 only in an initialised repository and when the
\* environment (flt: the commands failing during this body) lets it
GitOk(c, inited, flt) == inited /\ c \notin flt

\* the repository a git command of the engine addresses: `--git-dir ${git}`
\* on every command line, GIT_DIR: git for `git init`
AddressedByDiscovery(c) == IF c = "add" THEN ProjectGitDir ELSE Gitdir
Addressed(c) == Gitdir

\* the project's repository after a body ran the commands cmds
ProjectGitAfter(cmds) ==
  projectGit \cup {c \in cmds \cap Writers : Addressed(c) = ProjectGitDir}

\* a tree hash is the text <<t>> of its tree; <<>> is the empty string
HashOf(t) == <<t>>
EmptyString == <<>>
Undefined == "undefined"
ValidHash(h) == h # EmptyString /\ h[1] \in objects
TreeOf(h) == h[1]
KnownHashes == {HashOf(t) : t \in objects} \cup (IF emptyRet THEN {EmptyString} ELSE {})

\* $`...`.nothrow(): a non-zero exit code does not reject
ShellThrowsOnExit(exit) == exit # 0
ShellThrows(exit) == FALSE

\* MaybeGC with the test of the interval left out: every track() starts a pass
MaybeGCAlways(lastPass, t) == t

\* maybeGC: a pass starts unless the last one is less than GC_INTERVAL_MS ago;
\* the value is the Map entry afterwards
MaybeGC(lastPass, t) == IF t - lastPass < GC_INTERVAL_MS THEN lastPass ELSE t

\* stageChanged: `ls-files -m -o -d`, then `add -A --pathspec-from-file`;
\* `add .` when ls-files fails; the exit code of add is never looked at
StageChanged(idx, wt, inited, flt) ==
  IF ~GitOk("lsfiles", inited, flt)
  THEN IF GitOk("add", inited, flt) THEN wt ELSE idx
  ELSE LET status == {f \in Files : idx[f] # wt[f]} IN
       IF status = {} THEN idx
       ELSE IF GitOk("add", inited, flt)
            THEN [f \in Files |-> IF f \in status THEN wt[f] ELSE idx[f]]
            ELSE idx

\* the git commands one stageChanged runs: add only when ls-files failed
\* or reported something
StageRuns(idx, wt, inited, flt) ==
  {"lsfiles"} \cup
  (IF ~GitOk("lsfiles", inited, flt) \/ {f \in Files : idx[f] # wt[f]} # {}
   THEN {"add"} ELSE {})

\* stdout of `write-tree`, trimmed: the hash of the index's tree, or nothing
WriteTreeOut(idx, inited, flt) ==
  IF GitOk("writetree", inited, flt) THEN HashOf(idx) ELSE EmptyString

\* paths `git diff <hash> -- .` reports: tracked in the index or in the tree,
\* with worktree content different from the tree's
DiffPaths(h, idx, wt) ==
  SelectSeq(FileOrder, LAMBDA f :
     /\ (TreeOf(h)[f] # Absent \/ idx[f] # Absent)
     /\ TreeOf(h)[f] # wt[f])

\* files.trim().split("\n").map(trim).filter(Boolean).map(join)
SplitLines(text) == IF text = <<>> THEN <<"">> ELSE text
FilterBoolean(lines) == SelectSeq(lines, LAMBDA x : x # "")
MapJoin(lines) == [n \in 1..Len(lines) |-> Join(lines[n])]

\* exit code of `diff`: non-zero for a hash that names no object
DiffExit(h, flt) == IF GitOk("diff", repoInit, flt) /\ ValidHash(h) THEN 0 ELSE 1

\* patch's return value
PatchResult(h, exit, paths) ==
  IF exit # 0 THEN [hash |-> h, files |-> <<>>]
  ELSE [hash |-> h, files |-> MapJoin(FilterBoolean(SplitLines(paths)))]

\* diff's return value: the hunk of each differing path, "" on failure
DiffText(h, paths, wt) ==
  [n \in 1..Len(paths) |->
     [file |-> paths[n], minus |-> TreeOf(h)[paths[n]], plus |-> wt[paths[n]]]]
DiffResult(h, exit, paths, wt) ==
  IF exit # 0 THEN EmptyString ELSE DiffText(h, paths, wt)

\* diffFull: `diff --numstat <from> <to>` names the paths whose blobs differ
\* between the two trees; no line when the command fails
NumstatPaths(from, to, flt) ==
  IF GitOk("numstat", repoInit, flt) /\ ValidHash(from) /\ ValidHash(to)
  THEN SelectSeq(FileOrder, LAMBDA f : TreeOf(from)[f] # TreeOf(to)[f])
  ELSE <<>>
\* stdout of `show <hash>:<file>`: the blob, nothing when it fails
ShowText(h, f, flt) ==
  IF GitOk("show", repoInit, flt) /\ TreeOf(h)[f] # Absent THEN TreeOf(h)[f] ELSE ""
\* one FileDiff; every content is one line of text
FileDiff(from, to, f, flt) ==
  [file |-> f, before |-> ShowText(from, f, flt), after |-> ShowText(to, f, flt),
   additions |-> IF TreeOf(to)[f] # Absent THEN 1 ELSE 0,
   deletions |-> IF TreeOf(from)[f] # Absent THEN 1 ELSE 0]
DiffFullResult(from, to, flt) ==
  LET paths == NumstatPaths(from, to, flt)
  IN [n \in 1..Len(paths) |-> FileDiff(from, to, paths[n], flt)]

\* read-tree <hash> && checkout-index -a -f
RestoreIndex(h, idx, flt) ==
  IF GitOk("readtree", repoInit, flt) /\ ValidHash(h) THEN TreeOf(h) ELSE idx
RestoreExit(h, flt) ==
  IF /\ GitOk("readtree", repoInit, flt) /\ ValidHash(h)
     /\ GitOk("checkoutindex", repoInit, flt)
  THEN 0 ELSE 1
RestoreWorktree(h, wt, flt) ==
  IF RestoreExit(h, flt) = 0
  THEN [f \in Files |-> IF TreeOf(h)[f] # Absent THEN TreeOf(h)[f] ELSE wt[f]]
  ELSE wt

\* revert's git commands for one file
CheckoutOk(h, rel, flt) ==
  GitOk("checkout", repoInit, flt) /\ ValidHash(h) /\ TreeOf(h)[rel] # Absent
LsTreeExitOk(h, flt) == GitOk("lstree", repoInit, flt) /\ ValidHash(h)
LsTreeText(h, rel, flt) ==
  IF LsTreeExitOk(h, flt) /\ TreeOf(h)[rel] # Absent THEN <<rel>> ELSE EmptyString

\* what revert does with one file: checkout, else keep or delete
RevertActionDeleteOnFailure(h, rel, flt) ==
  IF CheckoutOk(h, rel, flt) THEN "checkout" ELSE "delete"
RevertAction(h, rel, flt) ==
  IF CheckoutOk(h, rel, flt) THEN "checkout"
  ELSE IF LsTreeExitOk(h, flt) /\ LsTreeText(h, rel, flt) # EmptyString THEN "keep"
  ELSE "delete"

\* content `git checkout <hash> -- <file>` writes: the tree's, whatever is there
CheckedOutReverseApplied(h, rel, content) ==
  IF content = TreeOf(h)[rel]
  THEN CHOOSE c \in Contents : c # content
  ELSE TreeOf(h)[rel]
CheckedOutContent(h, rel, content) == TreeOf(h)[rel]

\* `if (files.has(file)) continue`
SkipNever(file, seen) == FALSE
Skip(file, seen) == file \in seen

\* one iteration of revert's inner loop; st = [wt, idx, seen, log, flt]
RevertFile(h, file, st) ==
  IF Skip(file, st.seen) THEN st
  ELSE LET rel == Relative(file)
           act == RevertAction(h, rel, st.flt)
       IN [wt |-> IF act = "checkout"
                  THEN [st.wt EXCEPT ![rel] = CheckedOutContent(h, rel, st.wt[rel])]
                  ELSE IF act = "delete" THEN [st.wt EXCEPT ![rel] = Absent]
                  ELSE st.wt,
           idx |-> IF act = "checkout" THEN [st.idx EXCEPT ![rel] = TreeOf(h)[rel]]
                   ELSE st.idx,
           seen |-> st.seen \cup {file},
           log |-> Append(st.log, [file |-> file, hash |-> h, act |-> act,
                                   pre |-> st.wt[rel],
                                   coExit |-> IF CheckoutOk(h, rel, st.flt) THEN 0 ELSE 1,
                                   lsExit |-> IF LsTreeExitOk(h, st.flt) THEN 0 ELSE 1]),
           flt |-> st.flt]

RECURSIVE RevertFiles(_, _, _)
RevertFiles(h, files, st) ==
  IF files = <<>> THEN st
  ELSE RevertFiles(h, Tail(files), RevertFile(h, Head(files), st))

RECURSIVE RevertPatches(_, _)
RevertPatches(patches, st) ==
  IF patches = <<>> THEN st
  ELSE RevertPatches(Tail(patches),
                     RevertFiles(Head(patches).hash, Head(patches).files, st))

NoEvent == [id |-> 0, op |-> "none", arg |-> <<>>, ret |-> <<>>, threw |-> FALSE,
            exit |-> 0, env |-> {}, log |-> <<>>, follows |-> FALSE, changed |-> {}]


\* ----------------------------------------------------- relational store
\* (packages/opencode/src/storage/sqlite.ts)
\* a table is a function from the keys of its rows; an optional value is
\* <<>> (SQL NULL, JS null or undefined) or <<v>>
Null == <<>>
Some(v) == <<v>>
Coalesce(a, b) == IF a # Null THEN a ELSE b

SessionIds == {"s1", "s2", "s3"}
\* the position of an id in the TEXT collation of the ids
Rank(id) == CHOOSE n \in 1..3 : <<"s1", "s2", "s3">>[n] = id

\* a session payload; the fields writeSession and sessionIndexRow read
Session(id, title, created, updated) ==
  [id |-> id, projectID |-> "p1", parentID |-> Null, title |-> title,
   directory |-> Some("/d"), version |-> Null,
   time |-> [created |-> created, updated |-> updated, archived |-> Null],
   summary |-> Null, share |-> Null, worktree |-> Null, agent |-> Null]

\* JSON.stringify / JSON.parse of a payload
Stringify(p) == <<"json", p>>
Parse(text) == text[2]

\* typeof x === "string" ? x : "", and x ?? d
StringOr(x, d) == IF x # Null THEN x[1] ELSE d

\* sessionIndexData: the secondary attributes, undefined when there are none
SessionIndexData(s) == IF s.agent # Null THEN Some([agent |-> s.agent[1]]) ELSE Null

\* sessionIndexRow returns undefined for a payload without title or directory
Indexable(s) == StringOr(s.title, "") # "" /\ StringOr(s.directory, "") # ""
SessionIndexRow(s) ==
  LET createdAt == s.time.created
      updatedAt == Coalesce(s.time.updated, createdAt)
      data == SessionIndexData(s)
  IN [id |-> s.id, projectID |-> s.projectID, parentID |-> s.parentID,
      title |-> StringOr(s.title, ""), directory |-> StringOr(s.directory, ""),
      version |-> s.version,
      created_at |-> createdAt, updated_at |-> updatedAt,
      archived_at |-> s.time.archived,
      additions |-> IF s.summary = Null THEN 0 ELSE StringOr(s.summary[1].additions, 0),
      deletions |-> IF s.summary = Null THEN 0 ELSE StringOr(s.summary[1].deletions, 0),
      files_changed |-> IF s.summary = Null THEN 0 ELSE StringOr(s.summary[1].files, 0),
      share_url |-> IF s.share = Null THEN Null ELSE s.share[1].url,
      worktree_path |-> IF s.worktree = Null THEN Null ELSE s.worktree[1].path,
      worktree_branch |-> IF s.worktree = Null THEN Null ELSE s.worktree[1].branch,
      data |-> IF data # Null THEN Some(Stringify(data[1])) ELSE Null]

\* INSERT OR REPLACE / ON CONFLICT(id) DO UPDATE, and DELETE ... WHERE id = ?
Put(table, id, row) ==
  [x \in DOMAIN table \cup {id} |-> IF x = id THEN row ELSE table[x]]
Delete(table, id) == [x \in DOMAIN table \ {id} |-> table[x]]

\* the sessions row of a payload
SessionsRow(p) ==
  [projectID |-> p.projectID, parentID |-> p.parentID,
   created_at |-> p.time.created, updated_at |-> p.time.updated,
   data |-> Stringify(p)]

\* writeSessionIndexWithDb: upsert of the derived row, nothing without one
WriteSessionIndexWithDb(table, s) ==
  IF Indexable(s) THEN Put(table, s.id, SessionIndexRow(s)) ELSE table

\* readSession: the parsed payload, undefined without a row
ReadSession(id) == IF id \in DOMAIN sessions THEN Some(Parse(sessions[id].data)) ELSE Null

\* listMessages: the ids of a session's messages, ascending
ListMessages(sid) ==
  SelectSeq(<<"m1", "m2">>, LAMBDA m : m \in DOMAIN messages /\ messages[m].sessionID = sid)

\* a SessionIndexQuery
Query(limit, afterID) ==
  [projectID |-> "p1", limit |-> limit, start |-> Null, afterID |-> afterID,
   search |-> Null, directory |-> Null, includeArchived |-> Null]

\* ORDER BY updated_at DESC, id DESC: NULL sorts below every number
Before(r1, r2) ==
  IF r1.updated_at # r2.updated_at
  THEN r2.updated_at = Null \/ (r1.updated_at # Null /\ r1.updated_at[1] > r2.updated_at[1])
  ELSE Rank(r1.id) > Rank(r2.id)
RECURSIVE SortRows(_)
SortRows(rows) ==
  IF rows = {} THEN <<>>
  ELSE LET first == CHOOSE r \in rows : \A o \in rows \ {r} : Before(r, o)
       IN <<first>> \o SortRows(rows \ {first})

\* the cursor clause built from the row afterID names:
\* (COALESCE(updated_at, 0) < ? OR (COALESCE(updated_at, 0) = ? AND id < ?))
\* with ? = after.updated_at ?? after.created_at ?? 0
AfterCursor(row, after) ==
  LET cursor == StringOr(Coalesce(after.updated_at, after.created_at), 0)
      mine == StringOr(row.updated_at, 0)
  IN mine < cursor \/ (mine = cursor /\ Rank(row.id) < Rank(after.id))

\* the WHERE clauses of listSessionIndex; a comparison with NULL is not true
Selected(row, q, table) ==
  /\ row.projectID = q.projectID
  /\ q.start # Null => (row.updated_at # Null /\ row.updated_at[1] >= q.start[1])
  /\ (q.afterID # Null /\ q.afterID[1] \in DOMAIN table) =>
       AfterCursor(row, table[q.afterID[1]])
  \* title LIKE %search% COLLATE NOCASE; titles and patterns are single letters
  /\ q.search # Null => row.title = q.search[1]
  /\ q.directory # Null => row.directory = q.directory[1]
  /\ q.includeArchived = Some(FALSE) => row.archived_at = Null

\* LIMIT ?
Limit(rows, limit) ==
  IF limit = Null \/ limit[1] >= Len(rows) THEN rows ELSE SubSeq(rows, 1, limit[1])

\* the rows listSessionIndex returns from a seeded table
SelectSessionIndex(table, q) ==
  Limit(SortRows({table[id] : id \in {x \in DOMAIN table : Selected(table[x], q, table)}}),
        q.limit)
IdsOf(rows) == [n \in 1..Len(rows) |-> rows[n].id]

NoCall == [op |-> "none", id |-> "", threw |-> FALSE]
NoPager == [st |-> "idle", limit |-> 0, after |-> Null, acc |-> <<>>]

\* sync.tsx: the metadata of a session nothing was loaded for, and the
\* record of the last merge before any merge
NoMeta == [limit |-> <<>>, complete |-> <<>>, loading |-> FALSE]
NoMerge == [op |-> "none", items |-> <<>>, prune |-> FALSE, before |-> <<>>, n |-> 0]
\* no Worktree.remove() call yet; the sandbox of the worktree is registered
NoRemoval == [directory |-> <<>>, normalized |-> <<>>, pc |-> "idle", attempt |-> 0,
              log |-> <<>>, result |-> "none", registered |-> TRUE]
\* the pane's store as created, showing no session; performance.now() is 0.
\* The fields from changedAt on are for the claims: when windowNearBottom or
\* windowPages last changed, what last changed windowPages, whether a scroll
\* upward was seen since the session was shown and positioned, meta.loading
\* of the sessions, when loadMore was last invoked for each, whether it was
\* invoked since the session was shown, and history.more as last read.
NoPane == [sessionId |-> "none", windowPages |-> 1, windowExpandArmed |-> TRUE,
           windowNearBottom |-> TRUE, windowResetTimer |-> <<>>,
           historyLoadArmed |-> FALSE, historyLoadLocked |-> FALSE,
           historyLoadTimer |-> <<>>, initialScrollDone |-> FALSE, lastScrollTop |-> 0,
           clock |-> 0, ticks |-> 0, changedAt |-> 0, cause |-> "none", upSince |-> FALSE,
           loading |-> [id \in {"A", "B"} |-> FALSE],
           loadedAt |-> [id \in {"A", "B"} |-> -1], loadedHere |-> FALSE,
           more |-> FALSE]
\* statusState(): the cache as created, no event delivered, no call answered.
\* A result is named by the number of events delivered when its git
\* computation started; the initial [] has none (-1).
NoStatus == [value |-> -1, time |-> 0, dirty |-> TRUE, pending |-> <<>>,
             events |-> 0, answered |-> <<>>]
\* no session open in the pane the commands belong to
NoUndo == [open |-> FALSE, userMessages |-> <<>>, revert |-> <<>>, trail |-> <<>>,
           request |-> "none"]

\* the module's state when it is loaded, for a project with every
\* configuration (vcs, snapshot) given by the caller
Loaded ==
  /\ locks = [k \in Keys |-> 0]
  /\ ncalls = 0
  /\ key = [i \in Calls |-> "gitA"]
  /\ cur = [i \in Calls |-> 0]
  /\ released = [i \in Calls |-> FALSE]
  /\ pc = [i \in Calls |-> "none"]
  /\ step = [i \in Calls |-> 0]
  /\ fnres = [i \in Calls |-> "none"]
  /\ started = <<>>
  /\ op = [i \in Calls |-> "none"]
  /\ known = [i \in Calls |-> {}]
  /\ worktree = InitialTree
  /\ index = EmptyTree
  /\ objects = {}
  /\ dirExists = FALSE
  /\ repoInit = FALSE
  /\ emptyRet = FALSE
  /\ last = NoEvent
  /\ gc = 0
  /\ now = StartTime
  /\ projectGit = {}
  /\ sessionIndex = <<>>
  /\ messages = <<>>
  /\ seeded = FALSE
  /\ typesSeeded = FALSE
  /\ tx = <<>>
  /\ lastStore = NoCall
  /\ pager = NoPager
  /\ session = FALSE
  /\ meta = NoMeta
  /\ inflight = <<>>
  /\ requests = <<>>
  /\ nreq = 0
  /\ calls = {}
  /\ merged = NoMerge
  /\ removal = NoRemoval
  /\ pane = NoPane
  /\ fileStatus = NoStatus
  /\ undo = NoUndo

\* a git project with snapshotting left at its default
Init ==
  /\ Loaded
  /\ vcs = "git"
  /\ snapshot = "undefined"
  /\ sessions = <<>>
  /\ parts = <<>>
  /\ message = <<>>
  /\ localPart = <<>>
  /\ server = {}

\* any project: under git or not, snapshot true, false or not configured
GuardInit ==
  /\ Loaded
  /\ vcs \in {"git", Undefined}
  /\ snapshot \in {"true", "false", Undefined}
  /\ sessions = <<>>
  /\ parts = <<>>
  /\ message = <<>>
  /\ localPart = <<>>
  /\ server = {}

\* withLock up to `await current` (runs synchronously)
WithLockEnter(k) ==
  /\ LET i == ncalls + 1 IN
     /\ ncalls' = i
     /\ key' = [key EXCEPT ![i] = k]
     /\ cur' = [cur EXCEPT ![i] = Current(k)]
     /\ locks' = [locks EXCEPT ![Slot(k)] = i]
     /\ pc' = [pc EXCEPT ![i] = "waiting"]
  /\ UNCHANGED <<released, step, fnres, started>>

\* continuation of `await current`: fn() is invoked
Start(i) ==
  /\ pc[i] = "waiting"
  /\ Fulfilled(cur[i])
  /\ pc' = [pc EXCEPT ![i] = "running"]
  /\ started' = Append(started, i)
  /\ UNCHANGED <<locks, ncalls, key, cur, released, step, fnres>>
  /\ UNCHANGED <<snapVars, storeVars, clientVars, appVars>>

\* the finally block and the settlement of withLock's promise
Exit(i, threw) ==
  /\ released' = [released EXCEPT ![i] = ReleasedAtExit(threw)]
  /\ locks' = LocksAfterFinally(i)
  /\ pc' = [pc EXCEPT ![i] = Settle(threw)]
  /\ fnres' = [fnres EXCEPT ![i] = IF threw THEN "err" ELSE "ok"]

\* one awaited git step of the body
FnStep(i) ==
  /\ pc[i] = "running"
  /\ step[i] < BodySteps
  /\ step' = [step EXCEPT ![i] = @ + 1]
  /\ UNCHANGED <<locks, ncalls, key, cur, released, pc, fnres, started>>
  /\ UNCHANGED <<snapVars, storeVars, clientVars, appVars>>

FnReturn(i) ==
  /\ pc[i] = "running"
  /\ step[i] = BodySteps
  /\ Exit(i, FALSE)
  /\ UNCHANGED <<ncalls, key, cur, step, started>>
  /\ UNCHANGED <<snapVars, storeVars, clientVars, appVars>>

FnThrow(i) ==
  /\ pc[i] = "running"
  /\ Exit(i, TRUE)
  /\ UNCHANGED <<ncalls, key, cur, step, started>>
  /\ UNCHANGED <<snapVars, storeVars, clientVars, appVars>>

\* withLock(git, fn) called with an opaque body
FnCall(k) ==
  /\ ncalls < MaxCalls
  /\ WithLockEnter(k)
  /\ op' = [op EXCEPT ![ncalls + 1] = "fn"]
  /\ UNCHANGED <<known, worktree, index, objects, dirExists, repoInit, emptyRet, last>>
  /\ UNCHANGED <<gc, projVars, projectGit, storeVars, clientVars, appVars>>

LockNext ==
  \/ \E k \in Keys : FnCall(k)
  \/ \E i \in Calls : Start(i)
  \/ \E i \in Calls : FnStep(i)
  \/ \E i \in Calls : FnReturn(i)
  \/ \E i \in Calls : FnThrow(i)

LockSpec == Init /\ [][LockNext]_vars


\* ------------------------------------------------- snapshot operations
\* record of a settled body: call id, operation, argument, return value,
\* whether it threw, the exit code it looked at, the failing commands, the
\* per-file log of revert, whether it follows the body it is paired with
\* (restore of the hash the body before it tracked; revert of the same list
\* under the same failures as the body before it; patch of the hash tracked
\* just before the one write that precedes it, with that write's path as its
\* log), the files it changed
Event(i, o, a, r, t, x, l, flt, fol, wt2) ==
  [id |-> i, op |-> o, arg |-> a, ret |-> r, threw |-> t, exit |-> x,
   env |-> flt, log |-> l, follows |-> fol,
   changed |-> {f \in Files : wt2[f] # worktree[f]}]

FileLists == {<<Join("a.txt")>>, <<Join("b.txt")>>, <<Join("a.txt"), Join("b.txt")>>}
PatchesOver(hs) == [hash : hs, files : FileLists]
PatchLists(hs) ==
  UNION {[1..n -> PatchesOver(hs)] : n \in 0..MaxPatches}

\* an exported operation reaches `withLock(git, async () => ...)`.  Its
\* argument is fixed by the caller here, out of the hashes track() has
\* returned so far (known holds that set); the value is drawn where the body
\* first reads it.
SnapCall(o) ==
  /\ ncalls < MaxOps
  /\ Cardinality({j \in 1..ncalls : pc[j] \in {"waiting", "running"}}) < MaxPending
  /\ WithLockEnter(Gitdir)
  /\ op' = [op EXCEPT ![ncalls + 1] = o]
  /\ known' = [known EXCEPT ![ncalls + 1] = KnownHashes]
  /\ UNCHANGED <<worktree, index, objects, dirExists, repoInit, emptyRet, last>>
  /\ UNCHANGED <<gc, projVars, projectGit, storeVars, clientVars, appVars>>

\* track() passes both early returns: `Instance.project.vcs !== "git"` and
\* `cfg.snapshot === false`
TrackEnabledIgnoringConfig == vcs = "git"
TrackEnabled == vcs = "git" /\ snapshot # "false"

CallTrack == TrackEnabled /\ SnapCall("track")

\* track() takes an early return: the call resolves to undefined
TrackSkip ==
  /\ ~TrackEnabled
  /\ last' = [NoEvent EXCEPT !.op = "track", !.ret = Undefined]
  /\ UNCHANGED lockVars
  /\ UNCHANGED <<op, known, worktree, index, objects, dirExists, repoInit, emptyRet>>
  /\ UNCHANGED <<gc, projVars, projectGit, storeVars, clientVars, appVars>>
CallPatch == KnownHashes # {} /\ SnapCall("patch")
CallDiff == KnownHashes # {} /\ SnapCall("diff")
CallDiffFull == KnownHashes # {} /\ SnapCall("diffFull")
CallRestore == KnownHashes # {} /\ SnapCall("restore")
CallRevert == SnapCall("revert")

\* the body settles: finally block of withLock, result recorded
Settled(i, ev) ==
  /\ Exit(i, ev.threw)
  /\ last' = ev
  /\ known' = [known EXCEPT ![i] = {}]
  /\ op' = [op EXCEPT ![i] = "done"]
  /\ UNCHANGED <<ncalls, key, cur, step, started>>
  /\ UNCHANGED <<projVars, storeVars, clientVars, appVars>>

\* track: mkdir + git init on first use, stageChanged, write-tree, maybeGC.
\* A pass prunes only unreachable objects older than GC_PRUNE; the tree just
\* written (or freshened) is not among them.
TrackBody(i, flt) ==
  /\ pc[i] = "running" /\ op[i] = "track"
  /\ IF "mkdir" \in flt /\ ~dirExists
     THEN /\ Settled(i, Event(i, "track", <<>>, <<>>, TRUE, 1, <<>>, flt, FALSE, worktree))
          /\ UNCHANGED <<worktree, index, objects, dirExists, repoInit, emptyRet, gc>>
          /\ UNCHANGED projectGit
     ELSE LET inited == IF ~dirExists /\ "init" \notin flt THEN TRUE ELSE repoInit
              idx1 == StageChanged(index, worktree, inited, flt)
              hash == WriteTreeOut(idx1, inited, flt)
              exit == IF GitOk("writetree", inited, flt) THEN 0 ELSE 1
          IN /\ dirExists' = TRUE
             /\ repoInit' = inited
             /\ index' = idx1
             /\ objects' = IF exit = 0 THEN objects \cup {idx1} ELSE objects
             /\ emptyRet' = (emptyRet \/ hash = EmptyString)
             /\ gc' = MaybeGC(gc, now)
             /\ projectGit' = ProjectGitAfter(
                                (IF dirExists THEN {} ELSE {"init", "config"})
                                \cup StageRuns(index, worktree, inited, flt)
                                \cup {"writetree"}
                                \cup (IF MaybeGC(gc, now) # gc THEN {"gc"} ELSE {}))
             /\ Settled(i, Event(i, "track", <<>>, hash, ShellThrows(exit), exit, <<>>, flt,
                                   FALSE, worktree))
             /\ UNCHANGED worktree

\* patch: stageChanged, diff --name-only, parse the names
PatchBody(i, h, flt) ==
  /\ pc[i] = "running" /\ op[i] = "patch" /\ h \in known[i]
  /\ LET idx1 == StageChanged(index, worktree, repoInit, flt)
         exit == DiffExit(h, flt)
         paths == IF exit # 0 THEN <<>> ELSE DiffPaths(h, idx1, worktree)
         fol == last.op = "edit" /\ last.follows /\ last.ret = h
     IN /\ index' = idx1
        /\ Settled(i, Event(i, "patch", h, PatchResult(h, exit, paths),
                        ShellThrows(exit), exit, IF fol THEN <<last.arg>> ELSE <<>>,
                        flt, fol, worktree))
        /\ projectGit' = ProjectGitAfter(StageRuns(index, worktree, repoInit, flt) \cup {"diff"})
        /\ UNCHANGED <<worktree, objects, dirExists, repoInit, emptyRet, gc>>

\* diff: stageChanged, diff
DiffBody(i, h, flt) ==
  /\ pc[i] = "running" /\ op[i] = "diff" /\ h \in known[i]
  /\ LET idx1 == StageChanged(index, worktree, repoInit, flt)
         exit == DiffExit(h, flt)
         paths == IF exit # 0 THEN <<>> ELSE DiffPaths(h, idx1, worktree)
     IN /\ index' = idx1
        /\ Settled(i, Event(i, "diff", h, DiffResult(h, exit, paths, worktree),
                        ShellThrows(exit), exit, <<>>, flt, FALSE, worktree))
        /\ projectGit' = ProjectGitAfter(StageRuns(index, worktree, repoInit, flt) \cup {"diff"})
        /\ UNCHANGED <<worktree, objects, dirExists, repoInit, emptyRet, gc>>

\* diffFull: stageChanged, diff --numstat between two trees, show per path
DiffFullBody(i, from, to, flt) ==
  /\ pc[i] = "running" /\ op[i] = "diffFull" /\ from \in known[i] /\ to \in known[i]
  /\ index' = StageChanged(index, worktree, repoInit, flt)
  /\ Settled(i, Event(i, "diffFull", <<from, to>>, DiffFullResult(from, to, flt),
                  FALSE, 0, <<>>, flt, FALSE, worktree))
  /\ projectGit' = ProjectGitAfter(StageRuns(index, worktree, repoInit, flt)
                                   \cup {"numstat", "show"})
  /\ UNCHANGED <<worktree, objects, dirExists, repoInit, emptyRet, gc>>

\* restore: read-tree && checkout-index -a -f, failure only logged
RestoreBody(i, h, flt) ==
  /\ pc[i] = "running" /\ op[i] = "restore" /\ h \in known[i]
  /\ index' = RestoreIndex(h, index, flt)
  /\ worktree' = RestoreWorktree(h, worktree, flt)
  /\ Settled(i, Event(i, "restore", h, <<>>, ShellThrows(RestoreExit(h, flt)),
                  RestoreExit(h, flt), <<>>, flt,
                  last.op = "track" /\ ~last.threw /\ last.ret = h,
                  RestoreWorktree(h, worktree, flt)))
  /\ projectGit' = ProjectGitAfter(RestoreCmds)
  /\ UNCHANGED <<objects, dirExists, repoInit, emptyRet, gc>>

\* revert: every file of every patch once, first patch naming it wins
RevertBody(i, ps, flt) ==
  /\ pc[i] = "running" /\ op[i] = "revert"
  /\ LET st == RevertPatches(ps, [wt |-> worktree, idx |-> index, seen |-> {},
                                  log |-> <<>>, flt |-> flt])
         exit == IF \E n \in 1..Len(st.log) : st.log[n].act # "checkout" THEN 1 ELSE 0
     IN /\ worktree' = st.wt
        /\ index' = st.idx
        /\ Settled(i, Event(i, "revert", ps, <<>>, ShellThrows(exit), exit, st.log, flt,
                        last.op = "revert" /\ last.arg = ps /\ last.env = flt,
                        st.wt))
        /\ projectGit' = ProjectGitAfter(IF st.log = <<>> THEN {} ELSE RevertCmds)
        /\ UNCHANGED <<objects, dirExists, repoInit, emptyRet, gc>>

\* the user or the agent writes or deletes a file of the worktree
Edit(f, c) ==
  /\ worktree[f] # c
  /\ worktree' = [worktree EXCEPT ![f] = c]
  /\ last' = [NoEvent EXCEPT !.op = "edit"]
  /\ UNCHANGED lockVars
  /\ UNCHANGED <<op, known, index, objects, dirExists, repoInit, emptyRet>>
  /\ UNCHANGED <<gc, projVars, projectGit, storeVars, clientVars, appVars>>

\* a write in a session that only tracks, patches and diffs: content may
\* differ from the old one in whitespace only; the write right after a track
\* keeps that track's record (hash, exit code, failing commands) and its path
Write(f, c) ==
  /\ worktree[f] # c
  /\ worktree' = [worktree EXCEPT ![f] = c]
  /\ last' = IF last.op = "track" /\ ~last.threw
             THEN [last EXCEPT !.op = "edit", !.arg = f, !.follows = TRUE]
             ELSE [NoEvent EXCEPT !.op = "edit"]
  /\ UNCHANGED lockVars
  /\ UNCHANGED <<op, known, index, objects, dirExists, repoInit, emptyRet>>
  /\ UNCHANGED <<gc, projVars, projectGit, storeVars, clientVars, appVars>>

RunTrack == \E i \in Calls, flt \in FaultModes(TrackCmds) \cup {{"mkdir"}} : TrackBody(i, flt)
RunPatch == \E i \in Calls, flt \in FaultModes(DiffCmds) : \E h \in known[i] : PatchBody(i, h, flt)
RunDiff == \E i \in Calls, flt \in FaultModes(DiffCmds) : \E h \in known[i] : DiffBody(i, h, flt)
RunDiffFull ==
  \E i \in Calls, flt \in FaultModes(DiffFullCmds) :
    \E from, to \in known[i] : DiffFullBody(i, from, to, flt)
RunRestore ==
  \E i \in Calls, flt \in FaultModes(RestoreCmds) : \E h \in known[i] : RestoreBody(i, h, flt)
RunRevert ==
  \E i \in Calls, flt \in FaultModes(RevertCmds) :
    \E ps \in PatchLists(known[i]) : RevertBody(i, ps, flt)

SnapNext ==
  \/ CallTrack
  \/ CallPatch
  \/ CallDiff
  \/ CallDiffFull
  \/ CallRestore
  \/ CallRevert
  \/ \E i \in Calls : Start(i)
  \/ RunTrack
  \/ RunPatch
  \/ RunDiff
  \/ RunDiffFull
  \/ RunRestore
  \/ RunRevert
  \/ \E f \in Files, c \in Contents \cup {Absent} : Edit(f, c)

SnapSpec == Init /\ [][SnapNext]_vars

\* track, patch and diff over a worktree whose files also change in whitespace
PatchNext ==
  \/ CallTrack
  \/ CallPatch
  \/ CallDiff
  \/ \E i \in Calls : Start(i)
  \/ RunTrack
  \/ RunPatch
  \/ RunDiff
  \/ \E f \in Files, c \in Contents \cup Spaced \cup {Absent} : Write(f, c)

PatchSpec == Init /\ [][PatchNext]_vars

\* track() and worktree edits on projects of every configuration
GuardNext ==
  \/ CallTrack
  \/ TrackSkip
  \/ \E i \in Calls : Start(i)
  \/ RunTrack
  \/ \E f \in Files, c \in Contents \cup {Absent} : Edit(f, c)

GuardSpec == GuardInit /\ [][GuardNext]_vars

\* the body of track() when only `git gc` can exit non-zero
RunTrackGc == \E i \in Calls, flt \in {{}, {"gc"}} : TrackBody(i, flt)

\* Date.now() moves on by half of GC_INTERVAL_MS
Tick ==
  /\ now < StartTime + MaxTicks * (GC_INTERVAL_MS \div 2)
  /\ now' = now + GC_INTERVAL_MS \div 2
  /\ UNCHANGED lockVars
  /\ UNCHANGED <<op, known, worktree, index, objects, dirExists, repoInit, emptyRet, last>>
  /\ UNCHANGED <<vcs, snapshot, gc, projectGit, storeVars, clientVars, appVars>>

\* track() over days, the garbage collection passing or failing
GcNext ==
  \/ CallTrack
  \/ \E i \in Calls : Start(i)
  \/ RunTrackGc
  \/ Tick
  \/ \E f \in Files, c \in Contents \cup {Absent} : Edit(f, c)

GcSpec == Init /\ [][GcNext]_vars

\* ---------------------------------------------------- store operations
\* StoreSpec: one process calling the session functions of the store, each
\* statement of which the engine may reject (SQLITE_BUSY, I/O error).
\* Handlers are synchronous: while writeSession's transaction is open no
\* other call of this process runs; other connections read committed rows.
StoreIds == {"s1", "s2"}
StorePayloads ==
  {Session(id, t, Some(100), Null) : id \in StoreIds, t \in {Null, Some("t"), Some("u")}}

Called(o, id, threw) == [op |-> o, id |-> id, threw |-> threw]

\* handle.transaction(fn): statements of fn commit together or not at all
TransactionOff == FALSE
Transaction == TRUE

\* writeSession up to and including the INSERT OR REPLACE INTO sessions
WriteSessionBegin(p, fail) ==
  /\ tx = <<>>
  /\ IF fail
     THEN /\ lastStore' = Called("writeSession", p.id, TRUE)
          /\ UNCHANGED <<sessions, tx>>
     ELSE /\ tx' = <<p>>
          /\ sessions' = IF Transaction THEN sessions ELSE Put(sessions, p.id, SessionsRow(p))
          /\ UNCHANGED lastStore
  /\ UNCHANGED <<sessionIndex, messages, seeded, pager>>
  /\ UNCHANGED <<clientVars, appVars, lockVars, snapVars, partVars>>

\* writeSession from writeSessionIndexWithDb to COMMIT, or ROLLBACK on a throw
WriteSessionEnd ==
  \E fail \in BOOLEAN :
    /\ tx # <<>>
    /\ tx' = <<>>
    /\ IF fail
       THEN /\ lastStore' = Called("writeSession", tx[1].id, TRUE)
            /\ UNCHANGED <<sessions, sessionIndex>>
       ELSE /\ lastStore' = Called("writeSession", tx[1].id, FALSE)
            /\ sessions' = Put(sessions, tx[1].id, SessionsRow(tx[1]))
            /\ sessionIndex' = WriteSessionIndexWithDb(sessionIndex, tx[1])
    /\ UNCHANGED <<messages, seeded, pager>>
    /\ UNCHANGED <<clientVars, appVars, lockVars, snapVars, partVars>>

\* writeSessionIndex: the index upsert alone, on the shared handle
WriteSessionIndex ==
  \E s \in StorePayloads, fail \in BOOLEAN :
    /\ tx = <<>>
    /\ lastStore' = Called("writeSessionIndex", s.id, fail)
    /\ sessionIndex' = IF fail THEN sessionIndex ELSE WriteSessionIndexWithDb(sessionIndex, s)
    /\ UNCHANGED <<sessions, messages, seeded, tx, pager>>
    /\ UNCHANGED <<clientVars, appVars, lockVars, snapVars, partVars>>

\* removeSession with a third DELETE that cascades into messages
RemoveSessionCascade ==
  \E id \in StoreIds, failAt \in 0..2 :
    /\ tx = <<>>
    /\ lastStore' = Called("removeSession", id, failAt # 0)
    /\ sessions' = IF failAt = 1 THEN sessions ELSE Delete(sessions, id)
    /\ sessionIndex' = IF failAt # 0 THEN sessionIndex ELSE Delete(sessionIndex, id)
    /\ messages' = IF failAt # 0 THEN messages
                   ELSE [m \in {x \in DOMAIN messages : messages[x].sessionID # id} |->
                           messages[m]]
    /\ UNCHANGED <<seeded, tx, pager>>
    /\ UNCHANGED <<clientVars, appVars, lockVars, snapVars, partVars>>

\* removeSession: two DELETE statements, each committed on its own;
\* failAt = 1 or 2 is the statement that throws, 0 none
RemoveSession ==
  \E id \in StoreIds, failAt \in 0..2 :
    /\ tx = <<>>
    /\ lastStore' = Called("removeSession", id, failAt # 0)
    /\ sessions' = IF failAt = 1 THEN sessions ELSE Delete(sessions, id)
    /\ sessionIndex' = IF failAt # 0 THEN sessionIndex ELSE Delete(sessionIndex, id)
    /\ UNCHANGED <<messages, seeded, tx, pager>>
    /\ UNCHANGED <<clientVars, appVars, lockVars, snapVars, partVars>>

\* the index after writeSessionIndex(JSON.parse(row.data)) for the rows in ids
SeedRows(table, ids) ==
  LET hit == {id \in ids : Indexable(Parse(sessions[id].data))}
  IN [x \in DOMAIN table \cup hit |->
        IF x \in hit THEN SessionIndexRow(Parse(sessions[x].data)) ELSE table[x]]

\* ensureSessionIndex without the check of the meta flag
EnsureSessionIndexUnguarded ==
  \E fail \in BOOLEAN, part \in SUBSET DOMAIN sessions :
    /\ tx = <<>>
    /\ lastStore' = Called("ensureSessionIndex", "", fail)
    /\ sessionIndex' = SeedRows(sessionIndex, IF fail THEN part ELSE DOMAIN sessions)
    /\ seeded' = (seeded \/ ~fail)
    /\ UNCHANGED <<sessions, messages, tx, pager>>
    /\ UNCHANGED <<clientVars, appVars, lockVars, snapVars, partVars>>

\* ensureSessionIndex: nothing once seeded; else every sessions row is
\* indexed and the flag set.  A throw leaves the rows indexed so far (part)
\* and no flag.
EnsureSessionIndex ==
  \E fail \in BOOLEAN, part \in SUBSET DOMAIN sessions :
    /\ tx = <<>>
    /\ IF seeded
       THEN /\ lastStore' = Called("ensureSessionIndex", "", FALSE)
            /\ UNCHANGED <<sessionIndex, seeded>>
       ELSE /\ lastStore' = Called("ensureSessionIndex", "", fail)
            /\ sessionIndex' = SeedRows(sessionIndex, IF fail THEN part ELSE DOMAIN sessions)
            /\ seeded' = ~fail
    /\ UNCHANGED <<sessions, messages, tx, pager>>
    /\ UNCHANGED <<clientVars, appVars, lockVars, snapVars, partVars>>

\* the index once ensureSessionIndex has returned
Ensured == IF seeded THEN sessionIndex ELSE SeedRows(sessionIndex, DOMAIN sessions)

\* listSessionIndex(q): ensureSessionIndex, then the query
ListSessionIndex(q) == SelectSessionIndex(Ensured, q)

\* writeMessage: INSERT OR REPLACE INTO messages, keyed by the message id
WriteMessage ==
  \E m \in {"m1", "m2"}, sid \in StoreIds :
    /\ tx = <<>>
    /\ lastStore' = Called("writeMessage", sid, FALSE)
    /\ messages' = Put(messages, m, [sessionID |-> sid, created_at |-> Null,
                                      data |-> Stringify([id |-> m, sessionID |-> sid])])
    /\ UNCHANGED <<sessions, sessionIndex, seeded, tx, pager>>
    /\ UNCHANGED <<clientVars, appVars, lockVars, snapVars, partVars>>

CallWriteSession == \E p \in StorePayloads, fail \in BOOLEAN : WriteSessionBegin(p, fail)

StoreNext ==
  \/ CallWriteSession
  \/ WriteSessionEnd
  \/ WriteSessionIndex
  \/ RemoveSession
  \/ EnsureSessionIndex
  \/ WriteMessage

StoreSpec == Init /\ [][StoreNext]_vars

\* PageSpec: sessions with every shape of timestamps are written, then a
\* client pages through listSessionIndex: the first call without a cursor,
\* each further call with afterID = the last id of the page before, until a
\* page comes back empty.
PagePayloads ==
  {Session(id, Some("t"), time[1], time[2]) :
     id \in SessionIds,
     time \in {<<Null, Null>>, <<Null, Some(0)>>, <<Null, Some(5)>>, <<Some(5), Null>>}}

PageWrite ==
  /\ pager.st = "idle"
  /\ \E p \in PagePayloads : WriteSessionBegin(p, FALSE)

PageStart(limit) ==
  /\ pager.st = "idle" /\ tx = <<>>
  /\ pager' = [st |-> "paging", limit |-> limit, after |-> Null, acc |-> <<>>]
  /\ UNCHANGED <<sessions, sessionIndex, messages, seeded, tx, lastStore>>
  /\ UNCHANGED <<clientVars, appVars, lockVars, snapVars, partVars>>

PageFetch ==
  /\ pager.st = "paging"
  /\ LET page == ListSessionIndex(Query(Some(pager.limit), pager.after))
     IN pager' = IF page = <<>>
                 THEN [pager EXCEPT !.st = "done"]
                 ELSE [pager EXCEPT !.after = Some(page[Len(page)].id),
                                    !.acc = @ \o IdsOf(page)]
  /\ sessionIndex' = Ensured
  /\ seeded' = TRUE
  /\ lastStore' = Called("listSessionIndex", "", FALSE)
  /\ UNCHANGED <<sessions, messages, tx>>
  /\ UNCHANGED <<clientVars, appVars, lockVars, snapVars, partVars>>

PageNext ==
  \/ PageWrite
  \/ WriteSessionEnd
  \/ \E limit \in 1..MaxLimit : PageStart(limit)
  \/ PageFetch

PageSpec == Init /\ [][PageNext]_vars

\* ------------------------------------------- message parts, message pages
\* the message_parts keys the model writes, and the JSON type of a part:
\* missing or a string
PartKeys ==
  {<<"s1", "m1", "p1">>, <<"s1", "m1", "p2">>, <<"s1", "m2", "p1">>, <<"s2", "m1", "p1">>}
PartTypes == {Null, Some("reasoning")}

\* a message_parts row: the type column and JSON.stringify(part)
PartRow(id, type, column) == [type |-> column, data |-> Stringify([id |-> id, type |-> type])]

\* partTypeFromData: the type field of the parsed JSON when it is a string
PartTypeFromData(data) == Parse(data).type

\* a database of an older version: sessions without index rows, parts whose
\* type column (added since by ALTER TABLE) is NULL, no meta flags
LegacyInit ==
  /\ Loaded
  /\ vcs = "git"
  /\ snapshot = "undefined"
  /\ sessions =
       Put(Put(<<>>, "s1", SessionsRow(Session("s1", Some("t"), Some(100), Null))),
           "s2", SessionsRow(Session("s2", Null, Some(100), Null)))
  /\ \E keys \in SUBSET PartKeys, type \in PartTypes :
       parts = [k \in keys |-> PartRow(k[3], type, Null)]
  /\ message = <<>>
  /\ localPart = <<>>
  /\ server = {}

\* writeParts: nothing for an empty list; else one transaction of
\* INSERT OR REPLACE with type = part.type when that is a string
WriteParts ==
  \E sid \in StoreIds, mid \in {"m1", "m2"}, pids \in SUBSET {"p1", "p2"},
     type \in PartTypes, fail \in BOOLEAN :
    LET keys == {<<sid, mid, pid>> : pid \in pids}
    IN /\ tx = <<>>
       /\ keys \subseteq PartKeys
       /\ lastStore' = Called("writeParts", sid, pids # {} /\ fail)
       /\ parts' = IF fail THEN parts
                   ELSE [k \in DOMAIN parts \cup keys |->
                           IF k \in keys THEN PartRow(k[3], type, type) ELSE parts[k]]
       /\ UNCHANGED <<sessions, sessionIndex, messages, typesSeeded, seeded, tx, pager>>
       /\ UNCHANGED <<clientVars, appVars, lockVars, snapVars>>

\* the rows after the UPDATE of every row WHERE type IS NULL OR type = ''
TypedParts ==
  [k \in DOMAIN parts |->
     IF parts[k].type \in {Null, Some("")}
     THEN [parts[k] EXCEPT !.type = PartTypeFromData(parts[k].data)]
     ELSE parts[k]]

\* ensureMessagePartTypes: nothing once seeded; else the rows without type
\* are updated in one transaction and the flag set.  fail = 1: a throw up
\* to the transaction (rolled back), fail = 2: metaSet throws
EnsureMessagePartTypes ==
  \E fail \in 0..2 :
    /\ tx = <<>>
    /\ IF typesSeeded
       THEN /\ lastStore' = Called("ensureMessagePartTypes", "", FALSE)
            /\ UNCHANGED partVars
       ELSE /\ lastStore' = Called("ensureMessagePartTypes", "", fail # 0)
            /\ parts' = IF fail = 1 THEN parts ELSE TypedParts
            /\ typesSeeded' = (fail = 0)
    /\ UNCHANGED <<sessions, sessionIndex, messages, seeded, tx, pager>>
    /\ UNCHANGED <<clientVars, appVars, lockVars, snapVars>>

\* the position of a message id in the TEXT collation
MsgRank(id) == CHOOSE n \in 1..3 : <<"m1", "m2", "m3">>[n] = id

\* a MessageListInput
MessageListInput(sid, limit, afterID, partTypes, excludePartTypes) ==
  [sessionID |-> sid, limit |-> limit, afterID |-> afterID,
   partTypes |-> partTypes, excludePartTypes |-> excludePartTypes]

\* listMessagesPage, and the subquery of the other two page functions:
\* SELECT id FROM messages WHERE sessionID = ? [AND id < ?] ORDER BY id DESC [LIMIT ?]
\* (an empty afterID counts as none)
ListMessagesPageInclusive(input) ==
  LET asc == ListMessages(input.sessionID)
      desc == [n \in 1..Len(asc) |-> asc[Len(asc) + 1 - n]]
      below == IF input.afterID # Null /\ input.afterID[1] # ""
               THEN SelectSeq(desc, LAMBDA m : MsgRank(m) <= MsgRank(input.afterID[1]))
               ELSE desc
  IN Limit(below, input.limit)

ListMessagesPage(input) ==
  LET asc == ListMessages(input.sessionID)
      desc == [n \in 1..Len(asc) |-> asc[Len(asc) + 1 - n]]
      below == IF input.afterID # Null /\ input.afterID[1] # ""
               THEN SelectSeq(desc, LAMBDA m : MsgRank(m) < MsgRank(input.afterID[1]))
               ELSE desc
  IN Limit(below, input.limit)

\* listMessagesInfoPage and listMessagesWithPartsPage on the table that
\* ensureMessagePartTypes leaves: per message of the page its info, whether
\* it has a part of type 'reasoning', and (withParts) its parts passing
\* typeFilter in ascending id order; include takes precedence over exclude
\* and a NULL type passes neither IN nor NOT IN
ListMessagesWithPartsPage(input, withParts) ==
  LET table == IF typesSeeded THEN parts ELSE TypedParts
      include == input.partTypes \ {""}
      exclude == input.excludePartTypes \ {""}
      Passes(row) ==
        IF include # {} THEN row.type # Null /\ row.type[1] \in include
        ELSE IF exclude # {} THEN row.type # Null /\ row.type[1] \notin exclude
        ELSE TRUE
      Joined(mid) ==
        SelectSeq(<<"p1", "p2">>,
                  LAMBDA pid : /\ <<input.sessionID, mid, pid>> \in DOMAIN table
                               /\ Passes(table[<<input.sessionID, mid, pid>>]))
      PartsOf(mid) ==
        [n \in 1..Len(Joined(mid)) |-> Parse(table[<<input.sessionID, mid, Joined(mid)[n]>>].data)]
      ids == ListMessagesPage(input)
  IN [n \in 1..Len(ids) |->
        [info |-> Parse(messages[ids[n]].data),
         parts |-> IF withParts THEN PartsOf(ids[n]) ELSE <<>>,
         hasReasoning |->
           \E k \in DOMAIN table :
             k[1] = input.sessionID /\ k[2] = ids[n] /\ table[k].type = Some("reasoning")]]

\* removeMessage without the sessionID in the DELETE of the parts
RemoveMessageAnySession ==
  \E sid \in StoreIds, mid \in {"m1", "m2"}, failAt \in 0..2 :
    /\ tx = <<>>
    /\ lastStore' = [op |-> "removeMessage", id |-> sid, threw |-> failAt # 0, mid |-> mid]
    /\ messages' = IF failAt # 1 /\ mid \in DOMAIN messages /\ messages[mid].sessionID = sid
                   THEN Delete(messages, mid) ELSE messages
    /\ parts' = IF failAt # 0 THEN parts
                ELSE [k \in {x \in DOMAIN parts : x[2] # mid} |-> parts[k]]
    /\ UNCHANGED <<sessions, sessionIndex, typesSeeded, seeded, tx, pager>>
    /\ UNCHANGED <<clientVars, appVars, lockVars, snapVars>>

\* removeMessage: the DELETE of the message, then removeMessageParts, each
\* committed on its own; failAt = 1 or 2 is the statement that throws
RemoveMessage ==
  \E sid \in StoreIds, mid \in {"m1", "m2"}, failAt \in 0..2 :
    /\ tx = <<>>
    /\ lastStore' = [op |-> "removeMessage", id |-> sid, threw |-> failAt # 0, mid |-> mid]
    /\ messages' = IF failAt # 1 /\ mid \in DOMAIN messages /\ messages[mid].sessionID = sid
                   THEN Delete(messages, mid) ELSE messages
    /\ parts' = IF failAt # 0 THEN parts
                ELSE [k \in {x \in DOMAIN parts : ~(x[1] = sid /\ x[2] = mid)} |-> parts[k]]
    /\ UNCHANGED <<sessions, sessionIndex, typesSeeded, seeded, tx, pager>>
    /\ UNCHANGED <<clientVars, appVars, lockVars, snapVars>>

\* removeMessages: DELETE of the session's messages, then of its parts
RemoveMessages ==
  \E sid \in StoreIds, failAt \in 0..2 :
    /\ tx = <<>>
    /\ lastStore' = Called("removeMessages", sid, failAt # 0)
    /\ messages' = IF failAt = 1 THEN messages
                   ELSE [m \in {x \in DOMAIN messages : messages[x].sessionID # sid} |->
                           messages[m]]
    /\ parts' = IF failAt # 0 THEN parts
                ELSE [k \in {x \in DOMAIN parts : x[1] # sid} |-> parts[k]]
    /\ UNCHANGED <<sessions, sessionIndex, typesSeeded, seeded, tx, pager>>
    /\ UNCHANGED <<clientVars, appVars, lockVars, snapVars>>

\* a client chaining one of the three page functions over a session: the
\* first call without afterID, each further call with afterID = the last id
\* returned, until a page comes back empty.  The two functions that read
\* parts run ensureMessagePartTypes first.
MessagesFetch ==
  \E call \in {<<"listMessagesPage", {}, {}>>, <<"listMessagesInfoPage", {}, {}>>,
                <<"listMessagesWithPartsPage", {}, {}>>,
                <<"listMessagesWithPartsPage", {"reasoning"}, {}>>,
                <<"listMessagesWithPartsPage", {}, {"reasoning"}>>},
     sid \in StoreIds, limit \in 1..2 :
    LET q == IF pager.st = "idle"
             THEN [st |-> "paging", fn |-> call[1], acc |-> <<>>,
                   input |-> MessageListInput(sid, Some(limit), Null, call[2], call[3])]
             ELSE pager
        entries == ListMessagesWithPartsPage(q.input, q.fn = "listMessagesWithPartsPage")
        page == [n \in 1..Len(entries) |->
                   IF q.fn = "listMessagesPage" THEN [id |-> entries[n].info.id]
                   ELSE [id |-> entries[n].info.id, parts |-> IdsOf(entries[n].parts)]]
    IN /\ tx = <<>>
       /\ pager.st \in {"idle", "paging"}
       /\ pager' = IF page = <<>>
                   THEN [q EXCEPT !.st = "done"]
                   ELSE [q EXCEPT !.input.afterID = Some(page[Len(page)].id),
                                  !.acc = @ \o page]
       /\ parts' = IF q.fn = "listMessagesPage" \/ typesSeeded THEN parts ELSE TypedParts
       /\ typesSeeded' = (typesSeeded \/ q.fn # "listMessagesPage")
       /\ lastStore' = Called(q.fn, q.input.sessionID, FALSE)
       /\ UNCHANGED <<sessions, sessionIndex, messages, seeded, tx>>
       /\ UNCHANGED <<clientVars, appVars, lockVars, snapVars>>

\* MsgSpec: messages and parts are written on a legacy database; a client
\* pages while the tables are at rest.
MsgNext ==
  \/ pager.st = "idle" /\ WriteMessage
  \/ pager.st = "idle" /\ WriteParts
  \/ pager.st = "idle" /\ EnsureMessagePartTypes
  \/ MessagesFetch

MsgSpec == LegacyInit /\ [][MsgNext]_vars

\* CascadeSpec: messages and parts of two sessions are written and removed.
CascadeNext ==
  \/ WriteMessage
  \/ WriteParts
  \/ RemoveMessage
  \/ RemoveMessages

CascadeSpec == Init /\ [][CascadeNext]_vars

\* BackfillSpec: a legacy database is opened; the backfills run at any time
\* between index and part writes.
BackfillNext ==
  \/ EnsureSessionIndex
  \/ WriteSessionIndex
  \/ EnsureMessagePartTypes
  \/ WriteParts

BackfillSpec == LegacyInit /\ [][BackfillNext]_vars

\* ------------------------------------------------------- client merging

\* ids of messages and of parts in ascending order; a.id.localeCompare(b.id)
\* and the comparison of the binary search agree on ids of one alphabet and
\* one length
SortableIds == <<"m1", "m2", "m3", "p1", "p2">>
LocaleCompare(a, b) ==
  LET at(x) == CHOOSE n \in 1..Len(SortableIds) : SortableIds[n] = x
  IN  at(a) - at(b)

\* .sort((a, b) => a.id.localeCompare(b.id)): stable
RECURSIVE SortById(_)
SortById(array) ==
  IF Len(array) <= 1 THEN array
  ELSE LET x == Head(array)
           rest == SortById(Tail(array))
       IN  SelectSeq(rest, LAMBDA y : LocaleCompare(y.id, x.id) < 0) \o <<x>>
             \o SelectSeq(rest, LAMBDA y : LocaleCompare(y.id, x.id) >= 0)

\* Binary.search(array, id, (m) => m.id) between the 0-based bounds left and
\* right: { found, index }, index being the insertion point when not found
RECURSIVE BinarySearch(_, _, _, _)
BinarySearch(array, id, left, right) ==
  IF left > right THEN [found |-> FALSE, index |-> left]
  ELSE LET mid == (left + right) \div 2
           midId == array[mid + 1].id
       IN  IF midId = id THEN [found |-> TRUE, index |-> mid]
           ELSE IF LocaleCompare(midId, id) < 0
                THEN BinarySearch(array, id, mid + 1, right)
                ELSE BinarySearch(array, id, left, mid - 1)

\* the loop of the non-pruning mode with the test of result.found left out
RECURSIVE UpsertSplicing(_, _)
UpsertSplicing(current, items) ==
  IF items = <<>> THEN current
  ELSE LET item == Head(items)
           result == BinarySearch(current, item.id, 0, Len(current) - 1)
       IN  UpsertSplicing(SubSeq(current, 1, result.index) \o <<item>>
                            \o SubSeq(current, result.index + 1, Len(current)),
                          Tail(items))

\* for (const item of items): replace at result.index when found, else
\* current.splice(result.index, 0, item)
RECURSIVE Upsert(_, _)
Upsert(current, items) ==
  IF items = <<>> THEN current
  ELSE LET item == Head(items)
           result == BinarySearch(current, item.id, 0, Len(current) - 1)
       IN  Upsert(IF result.found
                  THEN [current EXCEPT ![result.index + 1] = item]
                  ELSE SubSeq(current, 1, result.index) \o <<item>>
                         \o SubSeq(current, result.index + 1, Len(current)),
                  Tail(items))

\* the pruning mode with tailIndex = lastResult.index whether found or not
MergeMessagesKeepingLast(current, items, prune) ==
  IF ~prune
  THEN IF items = <<>> THEN current
       ELSE IF current = Null THEN Some(items)
       ELSE Some(Upsert(current[1], items))
  ELSE IF items = <<>> THEN Some(<<>>)
  ELSE IF current = Null THEN Some(items)
  ELSE LET firstResult == BinarySearch(current[1], items[1].id, 0, Len(current[1]) - 1)
           lastResult == BinarySearch(current[1], items[Len(items)].id, 0,
                                      Len(current[1]) - 1)
           prefix == SubSeq(current[1], 1, firstResult.index)
           suffix == SubSeq(current[1], lastResult.index + 1, Len(current[1]))
       IN  Some(prefix \o items \o suffix)

\* mergeMessages: the value of draft.message[sessionID] it leaves, from the
\* one it finds (<<>> = undefined)
MergeMessages(current, items, prune) ==
  IF ~prune
  THEN IF items = <<>> THEN current
       ELSE IF current = Null THEN Some(items)
       ELSE Some(Upsert(current[1], items))
  ELSE IF items = <<>> THEN Some(<<>>)
  ELSE IF current = Null THEN Some(items)
  ELSE LET firstResult == BinarySearch(current[1], items[1].id, 0, Len(current[1]) - 1)
           lastResult == BinarySearch(current[1], items[Len(items)].id, 0,
                                      Len(current[1]) - 1)
           prefix == SubSeq(current[1], 1, firstResult.index)
           tailIndex == lastResult.index + (IF lastResult.found THEN 1 ELSE 0)
           suffix == SubSeq(current[1], tailIndex + 1, Len(current[1]))
       IN  Some(prefix \o items \o suffix)

\* mergeParts: the value of store.part it leaves; a part without id has id ""
MergeParts(part, messageID, incoming) ==
  LET sorted == SortById(SelectSeq(incoming, LAMBDA p : p.id # ""))
  IN  IF sorted = <<>> THEN part
      ELSE [m \in DOMAIN part \cup {messageID} |->
              IF m = messageID THEN sorted ELSE part[m]]

IdsIn(q) == {q[n].id : n \in 1..Len(q)}
\* the ascending sequences over ids, every entry with the value v
Ascending(ids, v) ==
  {SelectSeq([n \in 1..Len(ids) |-> [id |-> ids[n], v |-> v]], LAMBDA m : m.id \in keep) :
     keep \in SUBSET {ids[n] : n \in 1..Len(ids)}}
\* the argument lists a merge is given: any order, ids repeated or missing
Batches(ids, vs) ==
  LET one == {[id |-> i, v |-> v] : i \in ids, v \in vs}
  IN  {<<>>} \cup {<<x>> : x \in one} \cup {<<x, y>> : x \in one, y \in one}

\* a store holding any ascending sequence of messages, or none, and any
\* ascending list of parts for m1, or none
MergeInit ==
  /\ Loaded
  /\ vcs = "git"
  /\ snapshot = "undefined"
  /\ sessions = <<>>
  /\ parts = <<>>
  /\ server = {}
  /\ message \in {Null} \cup {Some(q) : q \in Ascending(<<"m1", "m2", "m3">>, "old")}
  /\ localPart \in {<<>>} \cup {[m \in {"m1"} |-> q] : q \in Ascending(<<"p1", "p2">>, "old")}

\* one call of mergeMessages, in either mode
ApplyMergeMessages ==
  \E items \in Batches({"m1", "m2", "m3"}, {"a", "b"}), prune \in BOOLEAN :
    /\ merged.n < MaxMerges
    /\ message' = MergeMessages(message, items, prune)
    /\ merged' = [op |-> "mergeMessages", items |-> items, prune |-> prune,
                  before |-> message, n |-> merged.n + 1]
    /\ UNCHANGED <<localPart, session, meta, inflight, requests, nreq, server, calls>>
    /\ UNCHANGED <<lockVars, snapVars, storeVars, appVars>>

\* one call of mergeParts for m1
ApplyMergeParts ==
  \E incoming \in Batches({"", "p1", "p2"}, {"a"}) :
    /\ merged.n < MaxMerges
    /\ localPart' = MergeParts(localPart, "m1", incoming)
    /\ merged' = [op |-> "mergeParts", items |-> incoming, prune |-> FALSE,
                  before |-> IF "m1" \in DOMAIN localPart THEN Some(localPart["m1"])
                             ELSE Null,
                  n |-> merged.n + 1]
    /\ UNCHANGED <<message, session, meta, inflight, requests, nreq, server, calls>>
    /\ UNCHANGED <<lockVars, snapVars, storeVars, appVars>>

MergeNext == ApplyMergeMessages \/ ApplyMergeParts
MergeSpec == MergeInit /\ [][MergeNext]_vars

\* -------------------------------------------------------- client syncing

\* a message as the store holds it: v tells the optimistic copy from the
\* server's; the parts the server sends with every message
Message(id, v) == [id |-> id, v |-> v]
ServerParts == <<[id |-> "p1", v |-> "server"]>>

\* the message ids the client and the server create in SyncSpec
MessageIds == {"m1", "m2"}

\* sdk.client.session.messages({ sessionID, limit }) on the server state held:
\* the most recent `limit` messages
Window(held, limit) ==
  LET all == SelectSeq(<<Message("m1", "server"), Message("m2", "server"),
                         Message("m3", "server")>>, LAMBDA m : m.id \in held)
  IN  IF Len(all) <= limit THEN all ELSE SubSeq(all, Len(all) - limit + 1, Len(all))

LimitFor(count) ==
  IF count <= chunk THEN chunk ELSE ((count + chunk - 1) \div chunk) * chunk

\* hydrateMessages: the metadata it leaves
HydrateMessages(m, msgs) ==
  IF m.limit # Null \/ msgs = Null THEN m
  ELSE [m EXCEPT !.limit = Some(LimitFor(Len(msgs[1]))),
                 !.complete = Some(Len(msgs[1]) < LimitFor(Len(msgs[1])))]

\* history.more(sessionID)
More ==
  /\ message # Null
  /\ meta.limit # Null
  /\ meta.complete # Some(TRUE)

\* the messages requests not yet answered
Fetching == {r \in DOMAIN requests : requests[r].kind = "messages"}

\* a session that may or may not be in store.session, nothing loaded, the
\* server holding some messages already
SyncInit ==
  /\ Loaded
  /\ vcs = "git"
  /\ snapshot = "undefined"
  /\ sessions = <<>>
  /\ parts = <<>>
  /\ message = Null
  /\ localPart = <<>>
  /\ server \in {{}, {"m1"}}

\* the server stores a message (a prompt posted, a reply produced)
ServerCreate ==
  \E id \in MessageIds \ server :
    /\ server' = server \cup {id}
    /\ UNCHANGED <<message, localPart, session, meta, inflight, requests, nreq, calls,
                   merged>>
    /\ UNCHANGED <<lockVars, snapVars, storeVars, appVars>>

\* addOptimisticMessage: splice at the index the search gives, found or not
AddOptimisticMessage ==
  \E id \in MessageIds :
    /\ message # Null => Len(message[1]) < MaxLocal
    /\ message' =
         IF message = Null THEN Some(<<Message(id, "optimistic")>>)
         ELSE LET list == message[1]
                  result == BinarySearch(list, id, 0, Len(list) - 1)
              IN  Some(SubSeq(list, 1, result.index) \o <<Message(id, "optimistic")>>
                         \o SubSeq(list, result.index + 1, Len(list)))
    /\ localPart' = [m \in DOMAIN localPart \cup {id} |->
                       IF m = id THEN SortById(<<[id |-> "p1", v |-> "optimistic"]>>)
                       ELSE localPart[m]]
    /\ UNCHANGED <<session, meta, inflight, requests, nreq, server, calls, merged>>
    /\ UNCHANGED <<lockVars, snapVars, storeVars, appVars>>

\* mergeMessage for a live update of a message the server holds
MergeMessage ==
  \E id \in server, incoming \in {<<>>, ServerParts} :
    /\ message' = MergeMessages(message, <<Message(id, "server")>>, FALSE)
    /\ localPart' = MergeParts(localPart, id, incoming)
    /\ UNCHANGED <<session, meta, inflight, requests, nreq, server, calls, merged>>
    /\ UNCHANGED <<lockVars, snapVars, storeVars, appVars>>

\* sync(sessionID), with loadMessages up to its await and the microtasks that
\* follow when nothing was requested
Sync ==
  LET hydrated == HydrateMessages(meta, message)
      hasMessages == message # Null
      limit == IF hydrated.limit = Null THEN chunk ELSE hydrated.limit[1]
      sessionReq == IF session THEN {} ELSE {nreq + 1}
      messagesReq == IF hasMessages \/ hydrated.loading THEN {}
                     ELSE {nreq + Cardinality(sessionReq) + 1}
      awaited == IF session /\ hasMessages THEN {}
                 ELSE IF inflight # Null THEN inflight[1]
                 ELSE sessionReq \cup messagesReq
      sent == IF (session /\ hasMessages) \/ inflight # Null THEN {}
              ELSE sessionReq \cup messagesReq
  IN  /\ nreq + Cardinality(sent) <= MaxRequests
      /\ requests' = [r \in DOMAIN requests \cup sent |->
                        IF r \in sessionReq /\ r \in sent
                        THEN [kind |-> "session", limit |-> 0, seen |-> {}]
                        ELSE IF r \in sent
                        THEN [kind |-> "messages", limit |-> limit, seen |-> server]
                        ELSE requests[r]]
      /\ nreq' = nreq + Cardinality(sent)
      /\ meta' = IF sent \cap messagesReq = {} THEN hydrated
                 ELSE [hydrated EXCEPT !.loading = TRUE]
      /\ inflight' = IF sent = {} THEN inflight ELSE Some(sent)
      /\ calls' = {[fetch |-> Fetching, awaits |-> awaited, settled |-> awaited = {}]}
      /\ UNCHANGED <<message, localPart, session, server, merged>>
      /\ UNCHANGED <<lockVars, snapVars, storeVars, appVars>>

\* history.loadMore(sessionID) with count = chunk, up to the await in
\* loadMessages; a call that returns at once changes nothing
LoadMore ==
  /\ ~meta.loading
  /\ meta.complete # Some(TRUE)
  /\ nreq < MaxRequests
  /\ meta' = [meta EXCEPT !.loading = TRUE]
  /\ nreq' = nreq + 1
  /\ requests' = [r \in DOMAIN requests \cup {nreq + 1} |->
                    IF r = nreq + 1
                    THEN [kind |-> "messages", seen |-> server,
                          limit |-> (IF meta.limit = Null THEN chunk ELSE meta.limit[1])
                                      + chunk]
                    ELSE requests[r]]
  /\ UNCHANGED <<message, localPart, session, inflight, server, calls, merged>>
  /\ UNCHANGED <<lockVars, snapVars, storeVars, appVars>>

\* a request is answered, or fails after its retries: the .then and .finally
\* of loadMessages or the .then of sessionReq, then the promises that hang on
\* it (Promise.all rejects with the first failure)
Respond ==
  \E r \in DOMAIN requests, ok \in BOOLEAN, late \in BOOLEAN :
    LET req == requests[r]
        next == Window(IF late THEN server ELSE req.seen, req.limit)
        settles(awaits) == r \in awaits /\ (~ok \/ awaits \cap DOMAIN requests = {r})
    IN  /\ IF req.kind = "messages" /\ ok
           THEN /\ message' = Some(next)
                /\ localPart' = [m \in DOMAIN localPart \cup IdsIn(next) |->
                                   IF m \in IdsIn(next) THEN ServerParts ELSE localPart[m]]
                /\ meta' = [limit |-> Some(req.limit),
                            complete |-> Some(Len(next) < req.limit),
                            loading |-> FALSE]
                /\ UNCHANGED session
           ELSE IF req.kind = "messages"
           THEN /\ meta' = [meta EXCEPT !.loading = FALSE]
                /\ UNCHANGED <<message, localPart, session>>
           ELSE /\ session' = (session \/ ok)
                /\ UNCHANGED <<message, localPart, meta>>
        /\ req.kind = "session" => ~late
        /\ requests' = [q \in DOMAIN requests \ {r} |-> requests[q]]
        /\ inflight' = IF inflight # Null /\ settles(inflight[1]) THEN Null ELSE inflight
        /\ calls' = {[c EXCEPT !.settled = c.settled \/ settles(c.awaits)] : c \in calls}
        /\ merged' = IF req.kind = "messages"
                      THEN [op |-> IF ok THEN "loadMessages" ELSE "loadMessagesFailed",
                            items |-> IF ok THEN next ELSE <<>>, prune |-> FALSE,
                            before |-> message, n |-> r]
                      ELSE merged
        /\ UNCHANGED <<nreq, server>>
        /\ UNCHANGED <<lockVars, snapVars, storeVars, appVars>>

SyncNext ==
  \/ ServerCreate
  \/ AddOptimisticMessage
  \/ MergeMessage
  \/ Sync
  \/ LoadMore
  \/ Respond
SyncSpec == SyncInit /\ [][SyncNext]_vars

\* ------------------------------------------------------- worktree removal
\* Paths are strings, modelled as sequences of characters; path.sep is "/".
DataPath == <<"/", "d">>                  \* Global.Path.data
\* path segments remove() is called with: "d", "w" (worktree), "w2", "p", "x", ".." and "."
SegmentSet == {<<"d">>, <<"w">>, <<"w", "2">>, <<"p">>, <<"x">>, <<".", ".">>, <<".">>}
SegmentLists == UNION {[1..n -> SegmentSet] : n \in 0..MaxSegments}

RECURSIVE JoinSegments(_)
JoinSegments(segs) ==
  IF segs = <<>> THEN <<>>
  ELSE IF Len(segs) = 1 THEN segs[1]
  ELSE segs[1] \o <<"/">> \o JoinSegments(Tail(segs))

\* String.split on the separator: empty segments are kept
RECURSIVE Split(_, _)
Split(s, acc) ==
  IF s = <<>> THEN <<acc>>
  ELSE IF Head(s) = "/" THEN <<acc>> \o Split(Tail(s), <<>>)
  ELSE Split(Tail(s), Append(acc, Head(s)))

\* the segment walk of path.normalize: "" and "." are dropped, ".." takes the
\* segment before it away, is dropped at the root of an absolute path and is
\* kept at the front of a relative one
RECURSIVE NormalizeString(_, _, _)
NormalizeString(segs, allowAboveRoot, res) ==
  IF segs = <<>> THEN res
  ELSE LET s == Head(segs)
           rest == Tail(segs)
       IN IF s = <<>> \/ s = <<".">> THEN NormalizeString(rest, allowAboveRoot, res)
          ELSE IF s = <<".", ".">>
            THEN IF res # <<>> /\ res[Len(res)] # <<".", ".">>
                   THEN NormalizeString(rest, allowAboveRoot, SubSeq(res, 1, Len(res) - 1))
                   ELSE IF allowAboveRoot
                     THEN NormalizeString(rest, allowAboveRoot, Append(res, s))
                     ELSE NormalizeString(rest, allowAboveRoot, res)
            ELSE NormalizeString(rest, allowAboveRoot, Append(res, s))

\* path.normalize (POSIX): a trailing separator is kept
Normalize(p) ==
  IF p = <<>> THEN <<".">>
  ELSE LET isAbsolute == p[1] = "/"
           trailingSeparator == p[Len(p)] = "/"
           body == JoinSegments(NormalizeString(Split(p, <<>>), ~isAbsolute, <<>>))
       IN IF body = <<>>
            THEN IF isAbsolute THEN <<"/">>
                 ELSE IF trailingSeparator THEN <<".", "/">> ELSE <<".">>
            ELSE (IF isAbsolute THEN <<"/">> ELSE <<>>) \o body
                 \o (IF trailingSeparator THEN <<"/">> ELSE <<>>)

StartsWith(s, prefix) == Len(s) >= Len(prefix) /\ SubSeq(s, 1, Len(prefix)) = prefix

ManagedRoot == Normalize(DataPath \o <<"/">> \o <<"w">>)

IsManaged(directory) == StartsWith(Normalize(directory), ManagedRoot \o <<"/">>)

\* the segments of the normalized path below the root: [projectID, name, ...]
RelativeParts(normalized) ==
  SelectSeq(Split(SubSeq(normalized, Len(ManagedRoot) + 1, Len(normalized)), <<>>),
            LAMBDA x : x # <<>>)

Step(name, ok, ms) == [step |-> name, ok |-> ok, ms |-> ms]

DelayLinear(attempt) == 500 * (attempt + 1)

\* the wait after failed attempt number `attempt`
Delay(attempt) == 500 * 2 ^ attempt

\* remove(directory) up to the first `git worktree remove`: the checks, then
\* State.dispose of the argument and of its normalized form. isDirectory is
\* what fs.stat finds at the normalized path, gitCommonDir whether
\* `git rev-parse --git-common-dir` printed anything there.
RemoveCall ==
  /\ removal.pc = "idle"
  /\ \E segs \in SegmentLists, absolute \in BOOLEAN, trailing \in BOOLEAN,
        isDirectory \in BOOLEAN, gitCommonDir \in BOOLEAN :
       LET directory == (IF absolute THEN <<"/">> ELSE <<>>) \o JoinSegments(segs)
                        \o (IF trailing THEN <<"/">> ELSE <<>>)
           normalized == Normalize(directory)
           call == [NoRemoval EXCEPT !.directory = directory, !.normalized = normalized]
           stat == <<Step("stat", isDirectory, 0)>>
           revparse == stat \o <<Step("revparse", gitCommonDir, 0)>>
           disposed == revparse \o <<Step("dispose", TRUE, 0)>>
                       \o (IF directory = normalized THEN <<>>
                           ELSE <<Step("dispose", TRUE, 0)>>)
       IN removal' =
            IF ~IsManaged(normalized)
              THEN [call EXCEPT !.pc = "done", !.result = "DeleteFailedError"]
            ELSE IF ~isDirectory
              THEN [call EXCEPT !.pc = "done", !.result = "NotFoundError", !.log = stat]
            ELSE IF Len(RelativeParts(normalized)) < 2
              THEN [call EXCEPT !.pc = "done", !.result = "DeleteFailedError", !.log = stat]
            ELSE IF ~gitCommonDir
              THEN [call EXCEPT !.pc = "done", !.result = "DeleteFailedError",
                                !.log = revparse]
            ELSE [call EXCEPT !.pc = "attempt", !.log = disposed]
  /\ UNCHANGED <<coreVars, pane, fileStatus, undo>>

\* one pass of the retry loop: `git worktree remove --force` exits with 0 or not
RemoveAttempt ==
  /\ removal.pc = "attempt"
  /\ \E ok \in BOOLEAN :
       LET ran == Append(removal.log, Step("remove", ok, 0))
           lastAttempt == removal.attempt = maxAttempts - 1
       IN removal' =
            IF ok
              THEN [removal EXCEPT !.pc = "done", !.result = "true", !.registered = FALSE,
                                   !.log = Append(ran, Step("removeSandbox", TRUE, 0))]
            ELSE IF ~lastAttempt
              THEN [removal EXCEPT !.attempt = @ + 1,
                                   !.log = Append(ran, Step("sleep", TRUE, Delay(removal.attempt)))]
            ELSE [removal EXCEPT !.pc = "manual", !.log = ran]
  /\ UNCHANGED <<coreVars, pane, fileStatus, undo>>

\* after the loop: fs.rm of the directory, `git worktree prune`, removeSandbox
RemoveManual ==
  /\ removal.pc = "manual"
  /\ \E removed \in BOOLEAN, pruned \in BOOLEAN :
       LET ran == Append(removal.log, Step("rm", removed, 0))
       IN removal' =
            IF ~removed
              THEN [removal EXCEPT !.pc = "done", !.result = "false", !.log = ran]
            ELSE [removal EXCEPT !.pc = "done", !.result = "true", !.registered = FALSE,
                                 !.log = ran \o <<Step("prune", pruned, 0),
                                                  Step("removeSandbox", TRUE, 0)>>]
  /\ UNCHANGED <<coreVars, pane, fileStatus, undo>>

WorktreeNext == RemoveCall \/ RemoveAttempt \/ RemoveManual
WorktreeSpec == Init /\ [][WorktreeNext]_vars

\* ------------------------------------------------------------ file status
\* Bus delivers FileWatcher.Event.Updated or File.Event.Edited: markDirty
MarkDirty ==
  /\ fileStatus.events < MaxEvents
  /\ fileStatus' = [fileStatus EXCEPT !.events = @ + 1, !.dirty = TRUE]
  /\ UNCHANGED <<coreVars, removal, pane, undo>>

\* status(): the cached value when it is fresh, the pending promise when a
\* computation is running, a new computation otherwise. `answered` notes the
\* events delivered at the call and the computation whose result it returns.
Status ==
  /\ LET cache == fileStatus
         stale == cache.dirty \/ now - cache.time > STATUS_TTL
         from == IF ~stale THEN cache.value
                 ELSE IF cache.pending # Null THEN cache.pending[1]
                 ELSE cache.events
     IN fileStatus' = [cache EXCEPT
          !.pending = IF stale /\ cache.pending = Null THEN Some(cache.events) ELSE @,
          !.answered = Some([events |-> cache.events, from |-> from, stale |-> stale])]
  /\ UNCHANGED <<coreVars, removal, pane, undo>>

\* the computation settles: .then stores its result, .catch only clears pending
StatusSettle ==
  /\ fileStatus.pending # Null
  /\ \E ok \in BOOLEAN :
       fileStatus' =
         IF ok THEN [fileStatus EXCEPT !.value = fileStatus.pending[1], !.time = now,
                                       !.dirty = FALSE, !.pending = Null]
         ELSE [fileStatus EXCEPT !.pending = Null]
  /\ UNCHANGED <<coreVars, removal, pane, undo>>

\* Date.now() moves on by a little more than half of STATUS_TTL
StatusTick ==
  /\ now < StartTime + MaxStatusTicks * (STATUS_TTL \div 2 + 1)
  /\ now' = now + STATUS_TTL \div 2 + 1
  /\ UNCHANGED lockVars
  /\ UNCHANGED <<op, known, worktree, index, objects, dirExists, repoInit, emptyRet, last>>
  /\ UNCHANGED <<vcs, snapshot, gc, projectGit, storeVars, clientVars, appVars>>

StatusNext == MarkDirty \/ Status \/ StatusSettle \/ StatusTick
StatusSpec == Init /\ [][StatusNext]_vars

\* ------------------------------------------------------------ undo, redo
UserMessageIds == <<"m1", "m2", "m3">>

\* what the session's revert marker is after session.revert and after
\* session.unrevert have returned
SessionRevert(messageID) == Some(messageID)
SessionUnrevert == Null

UndoTargetInclusive(userMessages, revert) ==
  LET hits == SelectSeq(userMessages,
                LAMBDA x : revert = Null \/ LocaleCompare(x, revert[1]) <= 0)
  IN IF hits = <<>> THEN Null ELSE Some(hits[Len(hits)])

\* userMessages().findLast((x) => !revert || x.id < revert)
UndoTarget(userMessages, revert) ==
  LET hits == SelectSeq(userMessages,
                LAMBDA x : revert = Null \/ LocaleCompare(x, revert[1]) < 0)
  IN IF hits = <<>> THEN Null ELSE Some(hits[Len(hits)])

\* userMessages().find((x) => x.id > revertMessageID)
RedoTarget(userMessages, revertMessageID) ==
  LET hits == SelectSeq(userMessages, LAMBDA x : LocaleCompare(x, revertMessageID) > 0)
  IN IF hits = <<>> THEN Null ELSE Some(hits[1])

\* a session with some user messages and no revert marker is shown
OpenSession ==
  /\ ~undo.open
  /\ \E ids \in SUBSET {"m1", "m2", "m3"} :
       undo' = [NoUndo EXCEPT !.open = TRUE,
                  !.userMessages = SelectSeq(UserMessageIds, LAMBDA x : x \in ids)]
  /\ UNCHANGED <<coreVars, removal, pane, fileStatus>>

\* the session.undo command
SessionUndo ==
  /\ undo.open
  /\ Len(undo.trail) < MaxCommands
  /\ LET target == UndoTarget(undo.userMessages, undo.revert)
     IN undo' = IF target = Null
                  THEN [undo EXCEPT !.trail = Append(@, "undo"), !.request = "none"]
                  ELSE [undo EXCEPT !.trail = Append(@, "undo"), !.request = "revert",
                                    !.revert = SessionRevert(target[1])]
  /\ UNCHANGED <<coreVars, removal, pane, fileStatus>>

\* the session.redo command
SessionRedo ==
  /\ undo.open
  /\ Len(undo.trail) < MaxCommands
  /\ LET nextMessage == IF undo.revert = Null THEN Null
                        ELSE RedoTarget(undo.userMessages, undo.revert[1])
     IN undo' = IF undo.revert = Null
                  THEN [undo EXCEPT !.trail = Append(@, "redo"), !.request = "none"]
                ELSE IF nextMessage = Null
                  THEN [undo EXCEPT !.trail = Append(@, "redo"), !.request = "unrevert",
                                    !.revert = SessionUnrevert]
                ELSE [undo EXCEPT !.trail = Append(@, "redo"), !.request = "revert",
                                  !.revert = SessionRevert(nextMessage[1])]
  /\ UNCHANGED <<coreVars, removal, pane, fileStatus>>

UndoNext == OpenSession \/ SessionUndo \/ SessionRedo
UndoSpec == Init /\ [][UndoNext]_vars

\* ------------------------------------------------------------ session pane
PaneSessions == {"A", "B"}
ScrollTops == {0, 200}                  \* el.scrollTop: at the top, away from it
BottomDistances == {0, 500}             \* scrollHeight - clientHeight - scrollTop

\* notes when windowNearBottom or windowPages changed between p and q
Observed(p, q) ==
  [q EXCEPT !.changedAt =
     IF <<q.windowNearBottom, q.windowPages>> # <<p.windowNearBottom, p.windowPages>>
       THEN q.clock ELSE p.changedAt]

WindowResetEffectOnPages(p, q) ==
  IF q.windowPages = p.windowPages THEN q
  ELSE [q EXCEPT !.windowResetTimer =
          IF q.windowNearBottom /\ q.windowPages > 1
            THEN Some(q.clock + MESSAGE_WINDOW_RESET_MS) ELSE Null]

\* the effect on [windowNearBottom, windowPages]: when either changed from p
\* to q the timer is cleared, and set again when near the bottom with more
\* than one page
WindowResetEffect(p, q) ==
  IF <<q.windowNearBottom, q.windowPages>> = <<p.windowNearBottom, p.windowPages>> THEN q
  ELSE [q EXCEPT !.windowResetTimer =
          IF q.windowNearBottom /\ q.windowPages > 1
            THEN Some(q.clock + MESSAGE_WINDOW_RESET_MS) ELSE Null]

\* props.sessionId changes: the effect on sessionId
SessionChange ==
  /\ \E id \in PaneSessions \ {pane.sessionId} :
       LET q == [pane EXCEPT !.sessionId = id, !.windowResetTimer = Null,
                             !.historyLoadTimer = Null, !.windowPages = 1,
                             !.windowExpandArmed = TRUE, !.windowNearBottom = TRUE,
                             !.historyLoadArmed = FALSE, !.historyLoadLocked = FALSE,
                             !.initialScrollDone = FALSE, !.lastScrollTop = 0,
                             !.upSince = FALSE, !.loadedHere = FALSE,
                             !.cause = IF pane.windowPages # 1 THEN "session" ELSE @]
       IN pane' = Observed(pane, WindowResetEffect(pane, q))
  /\ UNCHANGED <<coreVars, removal, fileStatus, undo>>

\* the effect that scrolls to the last message once the session has some
InitialScroll ==
  /\ pane.sessionId # "none"
  /\ ~pane.initialScrollDone
  /\ \E target \in ScrollTops :
       pane' = [pane EXCEPT !.initialScrollDone = TRUE, !.historyLoadArmed = FALSE,
                            !.lastScrollTop = target, !.upSince = FALSE]
  /\ UNCHANGED <<coreVars, removal, fileStatus, undo>>

ShouldLoadUnlocked(p, awayFromTop, more, armed) ==
  /\ ~awayFromTop
  /\ p.sessionId # "none"
  /\ more
  /\ ~p.loading[p.sessionId]
  /\ armed

\* the tests of handleScroll that lead to history.loadMore(id)
ShouldLoad(p, awayFromTop, more, armed) ==
  /\ ~awayFromTop
  /\ p.sessionId # "none"
  /\ more
  /\ ~p.loading[p.sessionId]
  /\ armed
  /\ ~p.historyLoadLocked

\* handleScroll for a scroll event at scrollTop, distanceFromBottom from the
\* end, history.more(id) being `more`; loadMore sets meta.loading of the session
HandleScroll ==
  /\ \E scrollTop \in ScrollTops, distanceFromBottom \in BottomDistances, more \in BOOLEAN :
       LET nearBottom == distanceFromBottom <= MESSAGE_WINDOW_BOTTOM_THRESHOLD
           scrolledUp == scrollTop + 2 < pane.lastScrollTop
           armed == pane.historyLoadArmed \/ scrolledUp
           upSince == pane.upSince \/ scrolledUp
           awayFromTop == scrollTop > MESSAGE_WINDOW_TOP_THRESHOLD
           expand == ~awayFromTop /\ pane.windowExpandArmed
           id == pane.sessionId
           invoke == ShouldLoad(pane, awayFromTop, more, armed)
           scrolled == [pane EXCEPT
                          !.windowNearBottom = nearBottom,
                          !.historyLoadArmed = armed,
                          !.upSince = upSince,
                          !.more = more,
                          !.lastScrollTop = scrollTop,
                          !.windowExpandArmed = IF awayFromTop THEN TRUE
                                                ELSE IF expand THEN FALSE ELSE @,
                          !.windowPages = IF expand THEN @ + 1 ELSE @,
                          !.cause = IF expand THEN "expand" ELSE @]
           loaded == IF ~invoke THEN scrolled
                     ELSE [scrolled EXCEPT
                             !.historyLoadLocked = TRUE,
                             !.historyLoadTimer =
                                Some(pane.clock + MESSAGE_HISTORY_LOAD_DEBOUNCE_MS),
                             !.loading[id] = TRUE,
                             !.loadedAt[id] = pane.clock,
                             !.loadedHere = TRUE]
       IN /\ expand => pane.windowPages < MaxPages
          /\ pane' = Observed(pane, WindowResetEffect(pane, loaded))
  /\ UNCHANGED <<coreVars, removal, fileStatus, undo>>

\* the timer of the window reset effect fires
WindowResetTimeout ==
  /\ pane.windowResetTimer # Null
  /\ pane.clock >= pane.windowResetTimer[1]
  /\ LET q == [pane EXCEPT !.windowPages = 1, !.windowExpandArmed = TRUE,
                           !.cause = "timeout"]
     IN pane' = Observed(pane, WindowResetEffect(pane, q))
  /\ UNCHANGED <<coreVars, removal, fileStatus, undo>>

\* the timer set by handleScroll fires
HistoryLoadTimeout ==
  /\ pane.historyLoadTimer # Null
  /\ pane.clock >= pane.historyLoadTimer[1]
  /\ pane' = [pane EXCEPT !.historyLoadLocked = FALSE, !.historyLoadTimer = Null]
  /\ UNCHANGED <<coreVars, removal, fileStatus, undo>>

\* the fetch loadMore started for a session is over
HistoryLoaded ==
  /\ \E id \in PaneSessions :
       /\ pane.loading[id]
       /\ pane' = [pane EXCEPT !.loading[id] = FALSE]
  /\ UNCHANGED <<coreVars, removal, fileStatus, undo>>

\* time passes: half of the debounce time or half of the reset time
PaneTick ==
  /\ pane.ticks < MaxPaneTicks
  /\ \E d \in {MESSAGE_HISTORY_LOAD_DEBOUNCE_MS \div 2, MESSAGE_WINDOW_RESET_MS \div 2} :
       pane' = [pane EXCEPT !.clock = @ + d, !.ticks = @ + 1]
  /\ UNCHANGED <<coreVars, removal, fileStatus, undo>>

PaneNext ==
  \/ SessionChange
  \/ InitialScroll
  \/ HandleScroll
  \/ WindowResetTimeout
  \/ HistoryLoadTimeout
  \/ HistoryLoaded
  \/ PaneTick

PaneSpec == Init /\ [][PaneNext]_vars

\* ------------------------------------------------------------ lock claims
Running(k) == {i \in 1..ncalls : key[i] = k /\ pc[i] = "running"}
Unfinished(k) == {i \in 1..ncalls : key[i] = k /\ pc[i] \in {"waiting", "running"}}
Finished(i) == pc[i] \in {"returned", "threw"}
PosOf(i) == CHOOSE n \in 1..Len(started) : started[n] = i
HasStarted(i) == \E n \in 1..Len(started) : started[n] = i

\* C1: for one key at most one body passed to withLock is executing at any
\* time; a body is running only when every earlier call on that key has
\* returned or thrown.
C1_MutualExclusion ==
  \A k \in Keys :
    /\ Cardinality(Running(k)) <= 1
    /\ \A i \in Running(k) : \A j \in 1..(i - 1) : key[j] = k => Finished(j)

\* C1 witness: a body in the middle of its git steps while a later call on
\* the same key is queued behind it.
C1_Witness ==
  \E i, j \in 1..ncalls :
    /\ i < j /\ key[i] = key[j]
    /\ pc[i] = "running" /\ step[i] = 1 /\ pc[j] = "waiting"

\* C2: when fn throws the error reaches the caller, the lock is released and
\* the key is not left locked: the Map no longer holds the failed call's
\* promise, the promise the next caller awaits is fulfilled, and on every key
\* with unfinished calls some call is running or can start.
C2_ThrowReleases ==
  /\ \A i \in 1..ncalls :
       fnres[i] = "err" =>
         /\ pc[i] = "threw"
         /\ released[i]
         /\ locks[key[i]] # i
         /\ \A j \in 1..ncalls : cur[j] = i => Fulfilled(cur[j])
  /\ \A k \in Keys :
       Unfinished(k) # {} =>
         \/ Running(k) # {}
         \/ \E j \in Unfinished(k) : Fulfilled(cur[j])

\* C2 witness: a call queued directly behind a call that threw has run.
C2_Witness ==
  \E i, j \in 1..ncalls :
    /\ cur[j] = i /\ pc[i] = "threw" /\ pc[j] = "returned"

\* C3: bodies on one key start in the order in which withLock was called.
C3_Fifo ==
  \A j \in 1..ncalls :
    HasStarted(j) =>
      \A i \in 1..(j - 1) :
        key[i] = key[j] => HasStarted(i) /\ PosOf(i) < PosOf(j)

\* C3 witness: three calls were queued on one key while the first was in
\* flight, and all of them have started.
C3_Witness ==
  \E i, j, l \in 1..ncalls :
    /\ i < j /\ j < l
    /\ key[i] = key[j] /\ key[j] = key[l]
    /\ cur[j] = i /\ cur[l] = j
    /\ HasStarted(l)

\* C4: a call is never held back by calls on another key: a waiting call that
\* cannot start has an unfinished earlier call on its own key.
C4_NoCrossKeyBlocking ==
  \A i \in 1..ncalls :
    (pc[i] = "waiting" /\ ~Fulfilled(cur[i])) =>
      \E j \in 1..(i - 1) : key[j] = key[i] /\ ~Finished(j)

\* C4 witness: a call submitted after a still-running call on the other key
\* has started and completed.
C4_Witness ==
  \E i, j \in 1..ncalls :
    /\ i < j /\ key[i] # key[j]
    /\ pc[i] = "running" /\ pc[j] = "returned"

\* -------------------------------------------------------- snapshot claims
PathInTree(h, rel) == ValidHash(h) /\ TreeOf(h)[rel] # Absent
NamedFiles(ps) ==
  UNION {{ps[k].files[n] : n \in 1..Len(ps[k].files)} : k \in 1..Len(ps)}
Names(patch, file) == \E n \in 1..Len(patch.files) : patch.files[n] = file
FirstNaming(ps, file) == CHOOSE k \in 1..Len(ps) :
                           /\ Names(ps[k], file)
                           /\ \A j \in 1..(k - 1) : ~Names(ps[j], file)
LogEntries(file) == {n \in 1..Len(last.log) : last.log[n].file = file}

\* C5: every track() that returns hands back a valid checkpoint hash: the
\* non-empty id of a tree object present in the shadow repository, also when
\* staging or write-tree exits non-zero.
C5_TrackReturnsValidHash ==
  (last.op = "track" /\ ~last.threw) => ValidHash(last.ret)

\* C6: restore(hash) run right after the track() that returned hash, with no
\* edit in between, changes, creates and deletes no file of the worktree.
C6_RestoreAfterTrackIsIdentity ==
  (last.op = "restore" /\ last.follows) => last.changed = {}

\* C7: revert handles each file named in the patch list exactly once, from
\* the hash of the first patch in list order that names it; where that
\* checkout succeeded the file holds that checkpoint's content afterwards.
C7_FirstPatchWins ==
  last.op = "revert" =>
    /\ \A n \in 1..Len(last.log) : last.log[n].file \in NamedFiles(last.arg)
    /\ \A file \in NamedFiles(last.arg) :
         /\ Cardinality(LogEntries(file)) = 1
         /\ \A n \in LogEntries(file) :
              /\ last.log[n].hash = last.arg[FirstNaming(last.arg, file)].hash
              /\ last.log[n].coExit = 0 =>
                   worktree[Relative(file)] = TreeOf(last.log[n].hash)[Relative(file)]

\* C7 witness: two patches of different checkpoints name the same file, whose
\* content differs between them, and the first one's content was checked out.
C7_Witness ==
  /\ last.op = "revert" /\ Len(last.arg) = 2
  /\ \E file \in NamedFiles(last.arg) :
       /\ Names(last.arg[1], file) /\ Names(last.arg[2], file)
       /\ PathInTree(last.arg[1].hash, Relative(file))
       /\ PathInTree(last.arg[2].hash, Relative(file))
       /\ TreeOf(last.arg[1].hash)[Relative(file)] # TreeOf(last.arg[2].hash)[Relative(file)]
       /\ \E n \in LogEntries(file) :
            last.log[n].coExit = 0 /\ last.log[n].pre # worktree[Relative(file)]

\* C8: when a checkout of revert fails, the file is left untouched if the tree
\* lookup succeeds and finds the path in the checkpoint's tree, and is deleted
\* otherwise; revert never throws and handles every file of the list.
C8_CheckoutFailure ==
  last.op = "revert" =>
    /\ ~last.threw
    /\ pc[last.id] = "returned"
    /\ \A file \in NamedFiles(last.arg) : LogEntries(file) # {}
    /\ \A n \in 1..Len(last.log) :
         LET e == last.log[n] IN
         e.coExit # 0 =>
           IF e.lsExit = 0 /\ PathInTree(e.hash, Relative(e.file))
           THEN worktree[Relative(e.file)] = e.pre
           ELSE worktree[Relative(e.file)] = Absent

\* C8 witness: one revert kept a file whose checkout failed although the
\* checkpoint has it, and went on to delete an existing file the checkpoint
\* does not have.
C8_Witness ==
  /\ last.op = "revert"
  /\ \E n, m \in 1..Len(last.log) :
       /\ n < m
       /\ last.log[n].coExit # 0 /\ last.log[n].lsExit = 0
       /\ PathInTree(last.log[n].hash, Relative(last.log[n].file))
       /\ last.log[n].pre # TreeOf(last.log[n].hash)[Relative(last.log[n].file)]
       /\ worktree[Relative(last.log[n].file)] = last.log[n].pre
       /\ last.log[m].coExit # 0 /\ last.log[m].pre # Absent
       /\ worktree[Relative(last.log[m].file)] = Absent

\* C9: a second revert of the same patch list, run right after the first with
\* nothing else changed in between, changes no file of the worktree.
C9_RevertIdempotent ==
  (last.op = "revert" /\ last.follows) => last.changed = {}

\* C9 witness: the repeated revert met a file the first one had deleted and a
\* file the first one had checked out.
C9_Witness ==
  /\ last.op = "revert" /\ last.follows
  /\ \E n, m \in 1..Len(last.log) :
       /\ last.log[n].coExit # 0 /\ last.log[n].pre = Absent
       /\ ~PathInTree(last.log[n].hash, Relative(last.log[n].file))
       /\ last.log[m].coExit = 0

\* C10: a git command exiting non-zero never makes patch, diff or restore
\* throw: patch returns {hash, files: []}, diff returns the empty string,
\* restore returns normally, and the lock is released afterwards.
C10_GitFailureNeverThrows ==
  (last.op \in {"patch", "diff", "restore"} /\ last.exit # 0) =>
    /\ ~last.threw
    /\ pc[last.id] = "returned"
    /\ released[last.id]
    /\ locks[Gitdir] # last.id
    /\ last.op = "patch" => last.ret = [hash |-> last.arg, files |-> <<>>]
    /\ last.op = "diff" => last.ret = EmptyString

\* C10 witness: patch failed on its diff command while the worktree differs
\* from a valid checkpoint, and the next operation has started.
C10_Witness ==
  /\ last.op = "patch" /\ last.exit # 0
  /\ ValidHash(last.arg)
  /\ \E f \in Files : TreeOf(last.arg)[f] # worktree[f]
  /\ \E j \in 1..ncalls : j > last.id /\ pc[j] = "running"

\* -------------------------------------------------- patch and diff claims
\* the text of a content with its whitespace removed
StripSpace(c) == IF c \in Spaced THEN "old" ELSE c
WhitespaceOnly(a, b) == a # b /\ StripSpace(a) = StripSpace(b)

\* C11: patch(hash) and diff(hash) ignore whitespace-only differences: a file
\* whose content differs from the checkpoint's in whitespace only is not
\* listed by patch and has no hunk in diff.
C11_IgnoresWhitespace ==
  /\ (last.op = "patch" /\ last.exit = 0) =>
       \A n \in 1..Len(last.ret.files) :
         ~WhitespaceOnly(TreeOf(last.arg)[Relative(last.ret.files[n])],
                         worktree[Relative(last.ret.files[n])])
  /\ (last.op = "diff" /\ last.exit = 0) =>
       \A n \in 1..Len(last.ret) : ~WhitespaceOnly(last.ret[n].minus, last.ret[n].plus)

\* C12: for a checkpoint A returned by track(), patch(A) (when its diff
\* command succeeds) lists every file whose content differs from its state in
\* A, and patch(A) right after the track() that returned A, with the worktree
\* not modified in between, lists nothing.
C12_PatchListsEveryDifference ==
  [][/\ (last'.op = "patch" /\ last'.exit = 0) =>
          \A f \in Files :
            TreeOf(last'.arg)[f] # worktree'[f] => Names(last'.ret, Join(f))
     /\ (last.op = "track" /\ ~last.threw /\ last'.op = "patch" /\ last'.arg = last.ret) =>
          last'.ret.files = <<>>]_vars

\* track() returned H1, then one write, to a.txt, then patch(H1)
PatchAfterWriteOfA ==
  /\ last.op = "edit" /\ last.follows /\ last.arg = "a.txt"
  /\ last'.op = "patch" /\ last'.arg = last.ret

UnderWorktree(name) == <<WorktreeRoot, name>>

C14_TrackDisabledNoEffect ==
  (vcs # "git" \/ snapshot = "false") =>
    /\ ncalls = 0 /\ started = <<>>
    /\ \A k \in Keys : locks[k] = 0
    /\ \A i \in Calls : pc[i] = "none" /\ op[i] = "none"
    /\ ~dirExists /\ ~repoInit
    /\ index = EmptyTree /\ objects = {}
    /\ gc = 0
    /\ last.op = "track" => last.ret = Undefined /\ ~last.threw

\* C14 witness: track() has returned on a git project whose configuration
\* sets snapshot to false.
C14_Witness ==
  /\ vcs = "git" /\ snapshot = "false"
  /\ last.op = "track" /\ last.ret = Undefined

C16_WriteSessionAtomic ==
  [][/\ (tx = <<>> /\ tx' # <<>>) => UNCHANGED <<sessions, sessionIndex>>
     /\ (lastStore'.op = "writeSession" /\ lastStore'.threw) =>
          UNCHANGED <<sessions, sessionIndex>>
     /\ (tx # <<>> /\ ~lastStore'.threw) =>
          /\ sessions' = Put(sessions, tx[1].id, SessionsRow(tx[1]))
          /\ Indexable(tx[1]) =>
               sessionIndex' = Put(sessionIndex, tx[1].id, SessionIndexRow(tx[1]))]_vars

\* C16 witness: after a writeSession that was rolled back, a transaction
\* replacing a stored session has executed its sessions upsert and readers
\* still see the old row.
C16_Witness ==
  /\ tx # <<>> /\ tx[1].id \in DOMAIN sessions
  /\ Parse(sessions[tx[1].id].data) # tx[1]
  /\ lastStore.op = "writeSession" /\ lastStore.threw

\* C17: after each successful writeSession(s), for every payload s,
\* session_index holds a row for s.id whose columns are the values derived
\* from s.
C17_IndexFollowsEveryWrite ==
  [][(tx # <<>> /\ ~lastStore'.threw) =>
       /\ tx[1].id \in DOMAIN sessionIndex'
       /\ sessionIndex'[tx[1].id] = SessionIndexRow(tx[1])]_vars

\* C18: in every reachable state every id present in session_index is also
\* present in sessions.
C18_IndexWithinSessions == DOMAIN sessionIndex \subseteq DOMAIN sessions

\* the queries a reader may put to listSessionIndex
Queries ==
  {[Query(limit, afterID) EXCEPT !.includeArchived = arch] :
     limit \in {Null, Some(1)}, afterID \in {Null} \cup {Some(id) : id \in StoreIds},
     arch \in {Null, Some(FALSE)}}

C20_PaginationComplete ==
  pager.st = "done" => pager.acc = IdsOf(ListSessionIndex(Query(Null, Null)))

\* the rows of every table, meta included
Tables == <<sessions, sessionIndex, messages, parts, seeded, typesSeeded>>

\* C21: the backfills are idempotent: a completed run leaves its meta flag
\* set, the flag is never cleared, and a call made with the flag set
\* changes no row of any table; after a completed ensureMessagePartTypes
\* every message_parts row whose JSON has a string type carries it in its
\* type column.
C21_BackfillsIdempotent ==
  [][/\ (lastStore'.op = "ensureSessionIndex" /\ ~lastStore'.threw) => seeded'
     /\ (lastStore'.op = "ensureMessagePartTypes" /\ ~lastStore'.threw) =>
          /\ typesSeeded'
          /\ \A k \in DOMAIN parts' :
               Parse(parts'[k].data).type # Null =>
                 parts'[k].type = Parse(parts'[k].data).type
     /\ seeded => seeded'
     /\ typesSeeded => typesSeeded'
     /\ (seeded /\ lastStore'.op = "ensureSessionIndex") => UNCHANGED Tables
     /\ (typesSeeded /\ lastStore'.op = "ensureMessagePartTypes") => UNCHANGED Tables]_vars

\* C21 witness: both backfills have completed on a legacy database, typed
\* and untyped parts are stored, an index row has since moved away from its
\* sessions row, and ensureSessionIndex was called again.
C21_Witness ==
  /\ seeded /\ typesSeeded
  /\ lastStore = Called("ensureSessionIndex", "", FALSE)
  /\ \E k \in DOMAIN parts : parts[k].type = Some("reasoning")
  /\ \E k \in DOMAIN parts : parts[k].type = Null
  /\ \E id \in DOMAIN sessions \cap DOMAIN sessionIndex :
       Indexable(Parse(sessions[id].data))
       /\ sessionIndex[id] # SessionIndexRow(Parse(sessions[id].data))

\* the inputs a reader may hand to the message page functions
PageInputs ==
  {MessageListInput(sid, limit, afterID, filter[1], filter[2]) :
     sid \in StoreIds, limit \in {Null, Some(1)},
     afterID \in {Null, Some("m2"), Some("m3")},
     filter \in {<<{}, {}>>, <<{"reasoning"}, {}>>, <<{}, {"reasoning"}>>}}

\* a page of message ids obeys the input: stored messages of the session,
\* below afterID, at most limit, strictly descending
PageObeys(ids, input) ==
  /\ \A n \in 1..Len(ids) :
       /\ ids[n] \in DOMAIN messages /\ messages[ids[n]].sessionID = input.sessionID
       /\ input.afterID # Null => MsgRank(ids[n]) < MsgRank(input.afterID[1])
  /\ input.limit # Null => Len(ids) <= input.limit[1]
  /\ \A n \in 1..(Len(ids) - 1) : MsgRank(ids[n]) > MsgRank(ids[n + 1])

\* C22: every page of the three page functions holds only messages of the
\* session below afterID, at most limit of them, in strictly descending id
\* order, each with its parts in ascending id order; a chain of pages run to
\* the first empty page has listed every message of the session exactly once.
C22_MessagePages ==
  /\ \A input \in PageInputs :
       /\ PageObeys(ListMessagesPage(input), input)
       /\ \A withParts \in BOOLEAN :
            LET page == ListMessagesWithPartsPage(input, withParts)
            IN /\ PageObeys([n \in 1..Len(page) |-> page[n].info.id], input)
               /\ \A n \in 1..Len(page) :
                    /\ page[n].info.sessionID = input.sessionID
                    /\ \A j \in 1..(Len(page[n].parts) - 1) :
                         <<page[n].parts[j].id, page[n].parts[j + 1].id>> = <<"p1", "p2">>
  /\ pager.st = "done" =>
       LET asc == ListMessages(pager.input.sessionID)
       IN /\ Len(pager.acc) = Len(asc)
          /\ \A n \in 1..Len(asc) : pager.acc[n].id = asc[Len(asc) + 1 - n]

\* C22 witness: a chain of listMessagesWithPartsPage with limit 1 has ended
\* after listing two messages, one of them with two parts.
C22_Witness ==
  /\ pager.st = "done"
  /\ pager.fn = "listMessagesWithPartsPage" /\ pager.input.limit = Some(1)
  /\ Len(pager.acc) = 2
  /\ \E n \in 1..2 : Len(pager.acc[n].parts) = 2

\* C23: a removeMessage(s, m) that returned leaves no message m and no part
\* of m in session s, a removeMessages(s) that returned no message and no
\* part of s; every other message and part and the session tables are as
\* before.
C23_MessageDeletesScoped ==
  [][\A sid \in StoreIds :
       LET one == lastStore'.op = "removeMessage"
           Gone(m) == IF one THEN m = lastStore'.mid /\ messages[m].sessionID = sid
                      ELSE messages[m].sessionID = sid
           GoneParts(k) == IF one THEN k[1] = sid /\ k[2] = lastStore'.mid ELSE k[1] = sid
       IN (lastStore'.op \in {"removeMessage", "removeMessages"}
           /\ lastStore'.id = sid /\ ~lastStore'.threw) =>
            /\ DOMAIN messages' = {m \in DOMAIN messages : ~Gone(m)}
            /\ \A m \in DOMAIN messages' : messages'[m] = messages[m]
            /\ DOMAIN parts' = {k \in DOMAIN parts : ~GoneParts(k)}
            /\ \A k \in DOMAIN parts' : parts'[k] = parts[k]
            /\ UNCHANGED <<sessions, sessionIndex>>]_vars

\* C23 witness: removeMessage("s1", "m1") has returned and the part stored
\* under the same message id in session s2, a part of message m2 and
\* message m2 are still there.
C23_Witness ==
  /\ lastStore.op = "removeMessage" /\ ~lastStore.threw
  /\ lastStore.id = "s1" /\ lastStore.mid = "m1"
  /\ "m1" \notin DOMAIN messages /\ "m2" \in DOMAIN messages
  /\ {<<"s2", "m1", "p1">>, <<"s1", "m2", "p1">>} \subseteq DOMAIN parts

\* ------------------------------------------------------ client merge claims

StrictlyAscending(q) == \A n \in 1..(Len(q) - 1) : LocaleCompare(q[n].id, q[n + 1].id) < 0
\* the argument of the last call was a sequence in strictly ascending order
OnAscending(fn, prune) ==
  /\ merged.op = fn
  /\ merged.prune = prune
  /\ merged.before # Null
  /\ StrictlyAscending(merged.before[1])

\* C24: mergeMessages without pruning, applied to an ascending sequence,
\* leaves it ascending; its ids are the old ones and the incoming ones, each
\* once; an incoming id carries the value it has in the batch (the last one
\* when the batch repeats it), every other entry is the one that was there;
\* an id that was present keeps its position; merging the batch again changes
\* nothing.
C24_SortedUpsert ==
  OnAscending("mergeMessages", FALSE) =>
    LET before == merged.before[1]
        items == merged.items
        after == message[1]
    IN  /\ StrictlyAscending(after)
        /\ IdsIn(after) = IdsIn(before) \cup IdsIn(items)
        /\ Len(after) = Cardinality(IdsIn(before) \cup IdsIn(items))
        /\ \A n \in 1..Len(after) :
             IF after[n].id \in IdsIn(items)
             THEN \E k \in 1..Len(items) :
                    /\ items[k] = after[n]
                    /\ \A j \in (k + 1)..Len(items) : items[j].id # after[n].id
             ELSE \E k \in 1..Len(before) : before[k] = after[n]
        /\ MergeMessages(message, items, FALSE) = message
\* a message already present was replaced, a new one inserted between two
\* old ones, and an old one left alone
C24_Witness ==
  /\ OnAscending("mergeMessages", FALSE)
  /\ merged.before = Some(<<[id |-> "m1", v |-> "old"], [id |-> "m3", v |-> "old"]>>)
  /\ merged.items = <<[id |-> "m2", v |-> "a"], [id |-> "m1", v |-> "b"]>>
  /\ message = Some(<<[id |-> "m1", v |-> "b"], [id |-> "m2", v |-> "a"],
                      [id |-> "m3", v |-> "old"]>>)


\* C27: mergeMessages with prune, applied to an ascending sequence and a
\* non-empty batch, leaves the old entries with an id below the first
\* incoming id, then the batch as given, then the old entries with an id
\* above the last incoming id.
C27_PruneReplacesRange ==
  (OnAscending("mergeMessages", TRUE) /\ merged.items # <<>>) =>
    LET before == merged.before[1]
        items == merged.items
    IN  message =
          Some(SelectSeq(before, LAMBDA m : LocaleCompare(m.id, items[1].id) < 0)
                 \o items
                 \o SelectSeq(before, LAMBDA m : LocaleCompare(m.id, items[Len(items)].id) > 0))
\* the batch replaced the middle entry and both neighbours were kept
C27_Witness ==
  /\ OnAscending("mergeMessages", TRUE)
  /\ Len(merged.before[1]) = 3
  /\ merged.items = <<[id |-> "m2", v |-> "a"]>>
  /\ message = Some(<<[id |-> "m1", v |-> "old"], [id |-> "m2", v |-> "a"],
                      [id |-> "m3", v |-> "old"]>>)

\* C28: for every sequence and every batch, mergeMessages with prune applied
\* a second time with the same batch changes nothing.
C28_PruneIdempotent ==
  (merged.op = "mergeMessages" /\ merged.prune) =>
    MergeMessages(message, merged.items, TRUE) = message

\* C29: after mergeParts(messageID, parts) the parts stored for messageID are
\* the incoming parts that have an id, ascending by id, whatever was stored
\* before and however many parts came in.
C29_PartsReplaced ==
  merged.op = "mergeParts" =>
    /\ "m1" \in DOMAIN localPart
    /\ localPart["m1"] = SortById(SelectSeq(merged.items, LAMBDA p : p.id # ""))


\* ------------------------------------------------------- client sync claims

\* C25: whatever addOptimisticMessage, mergeMessage and the responses of
\* loadMessages have done, the local sequence is strictly ascending by id, so
\* no id occurs in it twice.
C25_LocalSequenceAscending ==
  message # Null => StrictlyAscending(message[1])

\* C26: no step takes a message out of the local sequence: the ids present
\* before a merge or the response of a fetch are present after it.
C26_NeverRemoved ==
  [][message # Null => (message' # Null /\ IdsIn(message[1]) \subseteq IdsIn(message'[1]))]_vars

\* C30: at most one messages request is unanswered at any time, and the
\* promise of a sync() called while a messages request was unanswered does
\* not settle while that request is still unanswered.
C30_FetchesDeduplicated ==
  /\ Cardinality(Fetching) <= 1
  /\ \A c \in calls : c.settled => c.fetch \cap DOMAIN requests = {}


\* C31: with the session's messages in the store, history.more is false only
\* when the server holds as many messages as the store.
C31_MoreUntilAllLoaded ==
  (message # Null /\ ~More) => Cardinality(server) = Len(message[1])

\* C39: when the messages request of loadMessages fails, loading is reset,
\* no inflight entry is left for the session, and the local sequence, the
\* parts, the limit and the complete flag are what they were.
C39_FailedFetchRetryable ==
  [][(merged' # merged /\ merged'.op = "loadMessagesFailed") =>
       /\ ~meta'.loading
       /\ inflight' = Null
       /\ message' = message
       /\ localPart' = localPart
       /\ meta'.limit = meta.limit
       /\ meta'.complete = meta.complete]_vars


\* ------------------------------------------------ garbage collection claim

\* C34: two passes on the shadow repository start at least GC_INTERVAL_MS
\* apart, whether `git gc` exited with zero or not, and a track() whose pass
\* exits non-zero does not throw and returns the hash of the tree it wrote.
C34_GcAtMostOncePerInterval ==
  [][/\ gc' # gc => (gc' = now /\ gc' - gc >= GC_INTERVAL_MS)
     /\ (last' # last /\ last'.op = "track" /\ last'.env = {"gc"}) =>
          (~last'.threw /\ last'.ret = HashOf(index'))]_vars
\* a track() a day after the first possible one started a pass that exited
\* non-zero, and returned a hash
C34_Witness ==
  /\ last.op = "track" /\ last.env = {"gc"} /\ last.ret # EmptyString
  /\ gc = StartTime + GC_INTERVAL_MS
  /\ now = gc


\* ------------------------------------------------------ message write claim

\* C37: writeMessage for one session leaves the messages of every other
\* session as they were: the ids listMessages returns (their number is what
\* countMessages returns) and the row readMessage reads for each of them.
C37_WriteMessageScoped ==
  [][(messages' # messages /\ lastStore'.op = "writeMessage") =>
       \A B \in StoreIds \ {lastStore'.id} :
         /\ ListMessages(B)' = ListMessages(B)
         /\ \A m \in {"m1", "m2"} :
              (m \in DOMAIN messages /\ messages[m].sessionID = B) =>
                (m \in DOMAIN messages' /\ messages'[m] = messages[m])]_vars


\* ------------------------------------------------- worktree removal claims
\* the path, with "." and ".." resolved, lies below <data>/worktree
StrictlyInside(directory) ==
  /\ directory # <<>>
  /\ directory[1] = "/"
  /\ LET segs == NormalizeString(Split(directory, <<>>), FALSE, <<>>)
     IN Len(segs) > 2 /\ SubSeq(segs, 1, 2) = <<<<"d">>, <<"w">>>>

StepsOf(names) == SelectSeq(removal.log, LAMBDA e : e.step \in names)
FailedBefore(i) == Cardinality({j \in 1..(i - 1) :
                      removal.log[j].step = "remove" /\ ~removal.log[j].ok})

C33_BoundedRetries ==
  LET log == removal.log
      removes == StepsOf({"remove"})
      sleeps == StepsOf({"sleep"})
      failed == FailedBefore(Len(log) + 1)
      succeeded == \E i \in DOMAIN log : log[i].step \in {"remove", "rm"} /\ log[i].ok
  IN /\ Len(removes) <= 5
     /\ removal.pc = "attempt" => Len(removes) < 5
     /\ Len(sleeps) = (IF failed < 4 THEN failed ELSE 4)
     /\ \A k \in DOMAIN sleeps : sleeps[k].ms = 500 * 2 ^ (k - 1)
     /\ \A i \in DOMAIN log :
          /\ log[i].step = "sleep" => (log[i - 1].step = "remove" /\ ~log[i - 1].ok)
          /\ log[i].step \in {"rm", "prune"} => FailedBefore(i) = 5
     /\ removal.result = "true" <=> succeeded
     /\ succeeded => (removal.pc = "done" /\ ~removal.registered
                      /\ log[Len(log)].step = "removeSandbox")
     /\ (\E i \in DOMAIN log : log[i].step = "rm" /\ ~log[i].ok) =>
          (removal.pc = "done" /\ removal.result = "false")
     /\ removal.result # "true" => removal.registered

\* five failed attempts with the four waits, then the manual deletion succeeded
C33_Witness ==
  /\ removal.result = "true"
  /\ Len(StepsOf({"sleep"})) = 4
  /\ StepsOf({"rm"}) # <<>>

\* -------------------------------------------------------- file status claim
\* C38: a status() call returns a result whose git computation started after
\* every file event delivered before the call.
C38_NoEventLost ==
  fileStatus.answered # Null =>
    fileStatus.answered[1].from = fileStatus.answered[1].events

\* --------------------------------------------------------- undo, redo claim
\* n undo commands followed by n redo commands, as a trail
UndosThenRedos(n) == [i \in 1..(2 * n) |-> IF i <= n THEN "undo" ELSE "redo"]

LoadInvoked ==
  pane'.historyLoadTimer # Null /\ pane'.historyLoadTimer # pane.historyLoadTimer

\* C35: windowPages is never below 1 and goes back to 1 only with a session
\* change or when the pane was near the bottom with windowNearBottom and
\* windowPages unchanged for MESSAGE_WINDOW_RESET_MS; leaving the bottom zone
\* clears the pending timer and an expansion clears or restarts it.
C35_CollapseAfterInactivity ==
  [][/\ pane'.windowPages >= 1
     /\ (pane.windowPages > 1 /\ pane'.windowPages = 1) =>
          \/ pane'.sessionId # pane.sessionId
          \/ /\ pane.windowNearBottom
             /\ pane.clock - pane.changedAt >= MESSAGE_WINDOW_RESET_MS
     /\ ~pane'.windowNearBottom => pane'.windowResetTimer = Null
     /\ pane'.windowPages > pane.windowPages =>
          \/ pane'.windowResetTimer = Null
          \/ pane'.windowResetTimer = Some(pane'.clock + MESSAGE_WINDOW_RESET_MS)
    ]_vars

\* the window was expanded and the timer brought it back to one page
C35_Witness ==
  /\ pane.windowPages = 1
  /\ pane.cause = "timeout"
  /\ pane.windowNearBottom

\* C36 as stated: loadMore is invoked only at the top, with history.more
\* true, no load in progress and a scroll upward since the initial
\* positioning, and not again for the same session before
\* MESSAGE_HISTORY_LOAD_DEBOUNCE_MS has passed.
C36_ScrollLoadDebounced ==
  [][LoadInvoked =>
       LET id == pane.sessionId
       IN /\ pane'.lastScrollTop <= MESSAGE_WINDOW_TOP_THRESHOLD
          /\ pane'.more
          /\ ~pane.loading[id]
          /\ pane.initialScrollDone /\ pane'.upSince
          /\ \/ pane.loadedAt[id] = -1
             \/ pane.clock - pane.loadedAt[id] >= MESSAGE_HISTORY_LOAD_DEBOUNCE_MS
    ]_vars

\* C36, amended: loadMore is invoked only at the top, with history.more true,
\* no load in progress and a scroll upward since the session was shown and
\* since the initial positioning if that has taken place, and not again
\* before MESSAGE_HISTORY_LOAD_DEBOUNCE_MS has passed unless the pane's
\* session has changed in between.
C36_ScrollLoadDebouncedPerShowing ==
  [][LoadInvoked =>
       LET id == pane.sessionId
       IN /\ pane'.lastScrollTop <= MESSAGE_WINDOW_TOP_THRESHOLD
          /\ pane'.more
          /\ ~pane.loading[id]
          /\ pane'.upSince
          /\ \/ ~pane.loadedHere
             \/ pane.clock - pane.loadedAt[id] >= MESSAGE_HISTORY_LOAD_DEBOUNCE_MS
    ]_vars

\* loadMore has just been invoked, the debounce time or more after the pane
\* was created, with the lock now set
C36_Witness ==
  /\ pane.historyLoadLocked
  /\ pane.loadedHere
  /\ pane.loadedAt[pane.sessionId] >= MESSAGE_HISTORY_LOAD_DEBOUNCE_MS
  /\ pane.loadedAt[pane.sessionId] = pane.clock

====
